---- MODULE Spec2Model ----
(***************************************************************************)
(* Verification model of mcp_neo4j_data_modeling/data_model.py: the graph   *)
(* schema entities (Property, Node, Relationship, DataModel), their         *)
(* validators and mutators, and the Arrows transcoder; of the generator     *)
(* tools of mcp_neo4j_data_modeling/server.py; and of create_entities of    *)
(* mcp_neo4j_memory/neo4j_memory.py.                                        *)
(*                                                                          *)
(* Conventions.                                                             *)
(*   - Python str values that the code only compares or formats (labels,    *)
(*     relationship types, property names) are TLA+ strings.                *)
(*   - Python str values that the code parses (a property's type and        *)
(*     description, an Arrows encoded value) are sequences of one-character *)
(*     strings, so split / strip / upper / "in" are computed.               *)
(*   - Optional[T] is a sequence of length <= 1: None is << >>, a present   *)
(*     value v is <<v>>.                                                    *)
(*   - A properties dict of an Arrows document is a sequence of             *)
(*     <<name, value>> pairs in insertion order; a metadata dict is a       *)
(*     function from its keys, {} being the empty function << >>.           *)
(***************************************************************************)
EXTENDS Integers, Sequences, FiniteSets, TLC

VARIABLES
    dm,      \* the DataModel instance: [made, nodes, relationships, metadata]
    ent,     \* a free-standing Node or Relationship instance
    doc,     \* Optional Arrows document produced by to_arrows_dict
    imp,     \* Optional outcome of DataModel.from_arrows on doc
    src,     \* Optional Arrows document handed to DataModel.from_arrows from outside
    pty,     \* Optional free-standing Property instance
    store,   \* the memory graph database: [nodes (in order of creation), extensions]
    calls,   \* the create_entities calls in progress, one per caller
    gen,     \* Optional output of the last generator request
    db,      \* the graph database the generated ingest queries are run on
    last,    \* the last call: its name, its arguments, what it raised
    prev     \* history: the value of the object the last call acted on, before it

vars == <<dm, ent, doc, imp, src, pty, store, calls, gen, db, last, prev>>

(***************************************************************************)
(* Bounds of the model.                                                     *)
(***************************************************************************)
MaxNodes == 2
MaxRels == 2
MaxProps == 2
MaxGridNodes == 7
MaxTypeLen == 2
MaxBatch == 2
MaxStored == 3
MaxCallers == 2
MaxRecords == 1
MaxRuns == 4

None == << >>
Some(v) == <<v>>

\* the memory graph database with nothing in it, and no call in progress
EmptyStore == [nodes |-> << >>, extensions |-> {}]
NoCalls == << >>

\* a graph database with nothing in it; runs counts the queries run on it
EmptyGraph == [nodes |-> << >>, edges |-> << >>, runs |-> 0]

(***************************************************************************)
(* Character strings.                                                       *)
(***************************************************************************)
LowerLetters == <<"a", "d", "e", "k", "s", "y">>
UpperLetters == <<"A", "D", "E", "K", "S", "Y">>

\* str.upper() on one character
UpperChar(c) ==
    IF \E i \in DOMAIN LowerLetters : LowerLetters[i] = c
    THEN UpperLetters[CHOOSE i \in DOMAIN LowerLetters : LowerLetters[i] = c]
    ELSE c

\* str.lower() on one character
LowerChar(c) ==
    IF \E i \in DOMAIN UpperLetters : UpperLetters[i] = c
    THEN LowerLetters[CHOOSE i \in DOMAIN UpperLetters : UpperLetters[i] = c]
    ELSE c

StrUpper(s) == [i \in 1..Len(s) |-> UpperChar(s[i])]
StrLower(s) == [i \in 1..Len(s) |-> LowerChar(s[i])]

\* sub in s, for a non-empty sub
StrContains(s, sub) ==
    \E i \in 1..(Len(s) + 1 - Len(sub)) : SubSeq(s, i, i + Len(sub) - 1) = sub

RECURSIVE StrLStrip(_)
StrLStrip(s) ==
    IF s # << >> /\ Head(s) = " " THEN StrLStrip(Tail(s)) ELSE s

RECURSIVE StrRStrip(_)
StrRStrip(s) ==
    IF s # << >> /\ s[Len(s)] = " " THEN StrRStrip(SubSeq(s, 1, Len(s) - 1)) ELSE s

\* str.strip()
StrStrip(s) == StrRStrip(StrLStrip(s))

\* str.split("|"): the segments between the pipes, in order
RECURSIVE StrSplit(_)
StrSplit(s) ==
    IF \A i \in DOMAIN s : s[i] # "|"
    THEN <<s>>
    ELSE LET p == CHOOSE i \in DOMAIN s :
                      s[i] = "|" /\ \A j \in 1..(i - 1) : s[j] # "|"
         IN  <<SubSeq(s, 1, p - 1)>> \o StrSplit(SubSeq(s, p + 1, Len(s)))

KEY == <<"K", "E", "Y">>

(***************************************************************************)
(* Generic list helpers.                                                    *)
(***************************************************************************)
\* Counter(seq)[v]
Count(seq, v) == Cardinality({i \in DOMAIN seq : seq[i] = v})

\* index of the first Counter key whose count exceeds 1 (0 when there is none):
\* Counter.items() iterates the keys in order of first occurrence
FirstDupIndex(seq) ==
    IF \E i \in DOMAIN seq : Count(seq, seq[i]) > 1
    THEN CHOOSE i \in DOMAIN seq :
             /\ Count(seq, seq[i]) > 1
             /\ \A j \in 1..(i - 1) : Count(seq, seq[j]) = 1
    ELSE 0

\* list.remove(x): drops the first element equal to x; the list is returned
\* unchanged when there is none (the callers swallow that ValueError)
ListRemove(seq, x) ==
    IF \E i \in DOMAIN seq : seq[i] = x
    THEN LET p == CHOOSE i \in DOMAIN seq :
                      seq[i] = x /\ \A j \in 1..(i - 1) : seq[j] # x
         IN  SubSeq(seq, 1, p - 1) \o SubSeq(seq, p + 1, Len(seq))
    ELSE seq

\* [f(x) for x in seq if keep(x)], written with the index set of the kept items
SelectIdx(seq, keepIdx) ==
    LET F[i \in 0..Len(seq)] ==
            IF i = 0 THEN << >>
            ELSE IF i \in keepIdx THEN Append(F[i - 1], seq[i]) ELSE F[i - 1]
    IN  F[Len(seq)]

Names(props) == [i \in 1..Len(props) |-> props[i].name]

(***************************************************************************)
(* Errors.  A raised ValueError is kept as the parts of its message:        *)
(*   kind    the error kind of the taxonomy the message belongs to          *)
(*   form    which message template was used                                *)
(*   subject the label, pattern or property name the message carries        *)
(*   owner   the node label or relationship pattern of a property message   *)
(*   count   the occurrence count the message carries, 0 when it has none   *)
(***************************************************************************)
Err(kind, form, subject, owner, count) ==
    [kind |-> kind, form |-> form, subject |-> subject, owner |-> owner,
     count |-> count]

(***************************************************************************)
(* _generate_relationship_pattern                                           *)
(***************************************************************************)
GenerateRelationshipPattern(start_node_label, relationship_type, end_node_label) ==
    "(:" \o start_node_label \o ")-[:" \o relationship_type \o "]->(:"
        \o end_node_label \o ")"

(***************************************************************************)
(* PropertySource, Property                                                 *)
(***************************************************************************)
PropertySource(column_name, table_name, location) ==
    [column_name |-> column_name, table_name |-> table_name,
     location |-> location]

\* Property(...) that stores the type as it is given
PropertyAsGiven(name, type, source, description) ==
    [name |-> name, type |-> type, source |-> source,
     description |-> description]

\* Property(name=..., type=..., source=..., description=...): the field
\* validator validate_type stores the type upper-cased
Property(name, type, source, description) ==
    [name |-> name, type |-> StrUpper(type), source |-> source,
     description |-> description]

(***************************************************************************)
(* The outcome of a constructor or of a classmethod that constructs:        *)
(*   raised  "none", or the exception that leaves the call: pydantic's      *)
(*           "ValidationError" (built from the ValueErrors the field        *)
(*           validators raised, every field being validated), or the first  *)
(*           other exception a validator raised, which pydantic lets through *)
(*   errors  the line errors of a ValidationError, in field order; for a    *)
(*           KeyError the one key that was looked up and not found          *)
(*   value   the constructed object when raised = "none"                    *)
(***************************************************************************)
Outcome(raised, errors, value) ==
    [raised |-> raised, errors |-> errors, value |-> value]

Built(value) == Outcome("none", << >>, Some(value))

\* pydantic runs every field's validation and collects the ValueErrors; a field
\* that failed is left out of info.data, and a validator of a later field that
\* reads it raises KeyError, which is not collected but propagates at once;
\* missingKey is None or the key of info.data the validator did not find
KeyErrorOf(key) == Outcome("KeyError", <<Err("", "key_error", key, "", 0)>>, None)

Collect(fieldErrors, missingKey, value) ==
    IF missingKey # None THEN KeyErrorOf(missingKey[1])
    ELSE IF fieldErrors # << >> THEN Outcome("ValidationError", fieldErrors, None)
    ELSE Built(value)

EmptyDict == << >>

(***************************************************************************)
(* Node                                                                     *)
(***************************************************************************)
\* the list comprehension of validate_properties: drops the entries named
\* like the key property
DropKeyNamed(properties, key_name) ==
    SelectIdx(properties, {i \in DOMAIN properties : properties[i].name # key_name})

\* Node.validate_properties, key_property and label being in info.data
NodeValidateProperties(properties, key_property, label) ==
    LET kept == DropKeyNamed(properties, key_property.name)
        d == FirstDupIndex(Names(kept))
    IN  IF d # 0
        THEN [errors |-> <<Err("DuplicateProperty", "appears_times", kept[d].name,
                               label, Count(Names(kept), kept[d].name))>>,
              value |-> << >>]
        ELSE [errors |-> << >>, value |-> kept]

\* Node(label=..., key_property=..., properties=..., metadata=...), the fields
\* validated in declaration order; key_property is Optional here because
\* Node.from_arrows passes None when it found no key
NodeInit(label, key_property, properties, metadata) ==
    LET labelErr == IF label = ""
                    THEN <<Err("InvalidValue", "string_too_short", "label", "", 0)>>
                    ELSE << >>
        keyErr == IF key_property = None
                  THEN <<Err("MissingKeyProperty", "model_type", "key_property", "", 0)>>
                  ELSE << >>
        \* info.data["key_property"] is read first, info.data['label'] only
        \* while formatting the duplicate message
        keyMissing == key_property = None
        vp == IF keyMissing THEN [errors |-> << >>, value |-> << >>]
              ELSE NodeValidateProperties(properties, key_property[1], label)
        labelMissing == ~keyMissing /\ vp.errors # << >> /\ label = ""
    IN  Collect(labelErr \o keyErr \o vp.errors,
                IF keyMissing THEN Some("key_property")
                ELSE IF labelMissing THEN Some("label") ELSE None,
                [label |-> label, key_property |-> key_property[1],
                 properties |-> vp.value, metadata |-> metadata])

\* add_property without its membership test
NodeAddPropertyUnchecked(node, prop) ==
    [raised |-> "none", errors |-> << >>,
     properties |-> Append(node.properties, prop)]

\* Node.add_property: [raised, errors, properties]
NodeAddProperty(node, prop) ==
    IF \E i \in DOMAIN node.properties : node.properties[i].name = prop.name
    THEN [raised |-> "ValueError",
          errors |-> <<Err("DuplicateProperty", "already_exists", prop.name,
                           node.label, 0)>>,
          properties |-> node.properties]
    ELSE [raised |-> "none", errors |-> << >>,
          properties |-> Append(node.properties, prop)]

\* Node.remove_property
NodeRemoveProperty(node, prop) == ListRemove(node.properties, prop)

(***************************************************************************)
(* Relationship                                                             *)
(***************************************************************************)
\* Relationship.pattern
Pattern(r) ==
    GenerateRelationshipPattern(r.start_node_label, r.type, r.end_node_label)

\* Relationship.validate_properties
RelationshipValidateProperties(properties, key_property, start_node_label, type, end_node_label) ==
    LET kept == IF key_property # None
                THEN DropKeyNamed(properties, key_property[1].name)
                ELSE properties
        d == FirstDupIndex(Names(kept))
    IN  IF d # 0
        THEN [errors |-> <<Err("DuplicateProperty", "appears_times", kept[d].name,
                               GenerateRelationshipPattern(start_node_label, type,
                                                           end_node_label),
                               Count(Names(kept), kept[d].name))>>,
              value |-> << >>]
        ELSE [errors |-> << >>, value |-> kept]

\* Relationship(type=..., start_node_label=..., end_node_label=...,
\*              key_property=..., properties=..., metadata=...)
RelationshipInit(type, start_node_label, end_node_label, key_property, properties, metadata) ==
    LET typeErr == IF type = ""
                   THEN <<Err("InvalidValue", "string_too_short", "type", "", 0)>>
                   ELSE << >>
        vp == RelationshipValidateProperties(properties, key_property,
                                             start_node_label, type, end_node_label)
        \* info.data['type'] is read while formatting the duplicate message
        typeMissing == vp.errors # << >> /\ type = ""
    IN  Collect(typeErr \o vp.errors, IF typeMissing THEN Some("type") ELSE None,
                [type |-> type, start_node_label |-> start_node_label,
                 end_node_label |-> end_node_label, key_property |-> key_property,
                 properties |-> vp.value, metadata |-> metadata])

\* Relationship.add_property: [raised, errors, properties]
RelationshipAddProperty(rel, prop) ==
    IF \E i \in DOMAIN rel.properties : rel.properties[i].name = prop.name
    THEN [raised |-> "ValueError",
          errors |-> <<Err("DuplicateProperty", "already_exists", prop.name,
                           Pattern(rel), 0)>>,
          properties |-> rel.properties]
    ELSE [raised |-> "none", errors |-> << >>,
          properties |-> Append(rel.properties, prop)]

\* Relationship.remove_property
RelationshipRemoveProperty(rel, prop) == ListRemove(rel.properties, prop)

(***************************************************************************)
(* DataModel                                                                *)
(***************************************************************************)
Labels(nodes) == [i \in 1..Len(nodes) |-> nodes[i].label]
Patterns(relationships) == [i \in 1..Len(relationships) |-> Pattern(relationships[i])]
InSeq(x, seq) == \E i \in DOMAIN seq : seq[i] = x

\* DataModel.validate_nodes: the ValueError it raises, if any
ValidateNodes(nodes) ==
    LET d == FirstDupIndex(Labels(nodes))
    IN  IF d # 0
        THEN <<Err("DuplicateLabel", "appears_times", nodes[d].label, "",
                   Count(Labels(nodes), nodes[d].label))>>
        ELSE << >>

\* the "check for duplicate relationships" part of validate_relationships
DuplicatePatternCheck(relationships) ==
    LET d == FirstDupIndex(Patterns(relationships))
    IN  IF d # 0
        THEN <<Err("DuplicatePattern", "appears_times", Pattern(relationships[d]), "",
                   Count(Patterns(relationships), Pattern(relationships[d])))>>
        ELSE << >>

\* the loop body with its two tests in the other order
EndpointCheckEndFirst(relationship, nodes) ==
    IF ~InSeq(relationship.end_node_label, Labels(nodes))
    THEN <<Err("DanglingEndpoint", "end_missing", Pattern(relationship), "", 0)>>
    ELSE IF ~InSeq(relationship.start_node_label, Labels(nodes))
    THEN <<Err("DanglingEndpoint", "start_missing", Pattern(relationship), "", 0)>>
    ELSE << >>

\* one pass of the "ensure source and target nodes exist" loop body
EndpointCheck(relationship, nodes) ==
    IF ~InSeq(relationship.start_node_label, Labels(nodes))
    THEN <<Err("DanglingEndpoint", "start_missing", Pattern(relationship), "", 0)>>
    ELSE IF ~InSeq(relationship.end_node_label, Labels(nodes))
    THEN <<Err("DanglingEndpoint", "end_missing", Pattern(relationship), "", 0)>>
    ELSE << >>

\* the "ensure source and target nodes exist" loop: the first relationship, in
\* list order, that fails the check raises
EndpointsCheck(relationships, nodes) ==
    IF \E i \in DOMAIN relationships : EndpointCheck(relationships[i], nodes) # << >>
    THEN EndpointCheck(
             relationships[CHOOSE i \in DOMAIN relationships :
                 /\ EndpointCheck(relationships[i], nodes) # << >>
                 /\ \A j \in 1..(i - 1) : EndpointCheck(relationships[j], nodes) = << >>],
             nodes)
    ELSE << >>

\* DataModel.validate_relationships with info.data["nodes"] = nodes
ValidateRelationships(relationships, nodes) ==
    IF DuplicatePatternCheck(relationships) # << >>
    THEN DuplicatePatternCheck(relationships)
    ELSE EndpointsCheck(relationships, nodes)

\* DataModel(nodes=..., relationships=..., metadata=...): validate_nodes, then
\* validate_relationships.  When validate_nodes raised, "nodes" is not in
\* info.data: the duplicate-pattern check does not need it, the endpoint loop
\* raises KeyError on its first pass.
DataModelInit(nodes, relationships, metadata) ==
    LET nodeErr == ValidateNodes(nodes)
        nodesMissing == nodeErr # << >>
        dupErr == DuplicatePatternCheck(relationships)
        keyError == nodesMissing /\ dupErr = << >> /\ relationships # << >>
        relErr == IF nodesMissing THEN dupErr
                  ELSE ValidateRelationships(relationships, nodes)
    IN  Collect(nodeErr \o relErr, IF keyError THEN Some("nodes") ELSE None,
                [nodes |-> nodes, relationships |-> relationships,
                 metadata |-> metadata])

\* add_node without its membership test
AddNodeUnchecked(nodes, node) ==
    [raised |-> "none", errors |-> << >>, nodes |-> Append(nodes, node)]

\* add_node that appends before its membership test
AddNodeAppendFirst(nodes, node) ==
    IF InSeq(node.label, Labels(nodes))
    THEN [raised |-> "ValueError",
          errors |-> <<Err("DuplicateLabel", "already_exists", node.label, "", 0)>>,
          nodes |-> Append(nodes, node)]
    ELSE [raised |-> "none", errors |-> << >>, nodes |-> Append(nodes, node)]

\* DataModel.add_node: [raised, errors, nodes]
AddNode(nodes, node) ==
    IF InSeq(node.label, Labels(nodes))
    THEN [raised |-> "ValueError",
          errors |-> <<Err("DuplicateLabel", "already_exists", node.label, "", 0)>>,
          nodes |-> nodes]
    ELSE [raised |-> "none", errors |-> << >>, nodes |-> Append(nodes, node)]

\* add_relationship without its membership test
AddRelationshipUnchecked(relationships, relationship) ==
    [raised |-> "none", errors |-> << >>,
     relationships |-> Append(relationships, relationship)]

\* add_relationship comparing the three fields instead of the pattern strings
AddRelationshipByFields(relationships, relationship) ==
    IF \E i \in DOMAIN relationships :
           /\ relationships[i].start_node_label = relationship.start_node_label
           /\ relationships[i].type = relationship.type
           /\ relationships[i].end_node_label = relationship.end_node_label
    THEN [raised |-> "ValueError",
          errors |-> <<Err("DuplicatePattern", "already_exists",
                           Pattern(relationship), "", 0)>>,
          relationships |-> relationships]
    ELSE [raised |-> "none", errors |-> << >>,
          relationships |-> Append(relationships, relationship)]

\* DataModel.add_relationship: [raised, errors, relationships]
AddRelationship(relationships, relationship) ==
    IF InSeq(Pattern(relationship), Patterns(relationships))
    THEN [raised |-> "ValueError",
          errors |-> <<Err("DuplicatePattern", "already_exists",
                           Pattern(relationship), "", 0)>>,
          relationships |-> relationships]
    ELSE [raised |-> "none", errors |-> << >>,
          relationships |-> Append(relationships, relationship)]

\* remove_node with its comparison turned round
RemoveNodeInverted(nodes, node_label) ==
    SelectIdx(nodes, {i \in DOMAIN nodes : nodes[i].label = node_label})

\* DataModel.remove_node: the comprehension iterates self.nodes by index while
\* list.remove shortens it
RECURSIVE RemoveNodeFrom(_, _, _)
RemoveNodeFrom(nodes, i, node_label) ==
    IF i > Len(nodes) THEN nodes
    ELSE IF nodes[i].label = node_label
    THEN RemoveNodeFrom(ListRemove(nodes, nodes[i]), i + 1, node_label)
    ELSE RemoveNodeFrom(nodes, i + 1, node_label)

RemoveNode(nodes, node_label) == RemoveNodeFrom(nodes, 1, node_label)

\* DataModel.remove_relationship
RECURSIVE RemoveRelationshipFrom(_, _, _)
RemoveRelationshipFrom(relationships, i, pattern) ==
    IF i > Len(relationships) THEN relationships
    ELSE IF Pattern(relationships[i]) = pattern
    THEN RemoveRelationshipFrom(ListRemove(relationships, relationships[i]), i + 1,
                                pattern)
    ELSE RemoveRelationshipFrom(relationships, i + 1, pattern)

RemoveRelationship(relationships, relationship_type, relationship_start_node_label, relationship_end_node_label) ==
    RemoveRelationshipFrom(relationships, 1,
        GenerateRelationshipPattern(relationship_start_node_label, relationship_type,
                                    relationship_end_node_label))

(***************************************************************************)
(* Arrows export                                                            *)
(***************************************************************************)
\* dict.get(k, default)
DictGet(d, k, default) == IF k \in DOMAIN d THEN d[k] ELSE default

\* props.update({k: v}) on an insertion-ordered dict
DictUpdate(d, k, v) ==
    IF \E i \in DOMAIN d : d[i][1] = k
    THEN [i \in DOMAIN d |-> IF d[i][1] = k THEN <<k, v>> ELSE d[i]]
    ELSE Append(d, <<k, v>>)

\* props.update(p) for each p of a list of one-entry dicts, in order
DictUpdateAll(d, entries) ==
    LET F[i \in 0..Len(entries)] ==
            IF i = 0 THEN d
            ELSE DictUpdate(F[i - 1], entries[i][1], entries[i][2])
    IN  F[Len(entries)]

SEP == <<" ", "|", " ">>

\* Property.to_arrows: the one entry name -> "TYPE[ | description][ | KEY]"
PropertyToArrows(prop, is_key) ==
    LET v0 == prop.type
        v1 == IF prop.description # None /\ prop.description[1] # << >>
              THEN v0 \o SEP \o prop.description[1] ELSE v0
        v2 == IF is_key THEN v1 \o SEP \o KEY ELSE v1
    IN  <<prop.name, v2>>

PropertiesToArrows(properties) ==
    [i \in 1..Len(properties) |-> PropertyToArrows(properties[i], FALSE)]

\* Node.to_arrows that places every node on the grid
NodeToArrowsOnGrid(node, default_position) ==
    [id |-> node.label,
     labels |-> <<node.label>>,
     properties |-> DictUpdateAll(<< >>,
                        PropertiesToArrows(node.properties) \o
                            <<PropertyToArrows(node.key_property, TRUE)>>),
     style |-> DictGet(node.metadata, "style", EmptyDict),
     position |-> default_position,
     caption |-> DictGet(node.metadata, "caption", "")]

\* Node.to_arrows
NodeToArrows(node, default_position) ==
    [id |-> node.label,
     labels |-> <<node.label>>,
     properties |-> DictUpdateAll(<< >>,
                        PropertiesToArrows(node.properties) \o
                            <<PropertyToArrows(node.key_property, TRUE)>>),
     style |-> DictGet(node.metadata, "style", EmptyDict),
     position |-> DictGet(node.metadata, "position", default_position),
     caption |-> DictGet(node.metadata, "caption", "")]

\* Relationship.to_arrows
RelationshipToArrows(rel) ==
    [fromId |-> rel.start_node_label,
     toId |-> rel.end_node_label,
     type |-> rel.type,
     properties |-> DictUpdateAll(<< >>,
                        PropertiesToArrows(rel.properties) \o
                            (IF rel.key_property # None
                             THEN <<PropertyToArrows(rel.key_property[1], TRUE)>>
                             ELSE << >>)),
     style |-> DictGet(rel.metadata, "style", EmptyDict)]

NodeSpacing == 200
RowDrop == 200
RowLength == 5

\* y_current of to_arrows_dict when the node of 0-based index idx is appended,
\* as a count of 200-unit drops: the loop lowers it before appending each
\* node with (idx + 1) % 5 = 0
RowDrops(idx) == Cardinality({j \in 0..idx : (j + 1) % RowLength = 0})

\* the default_position to_arrows_dict hands to the node of 0-based index idx
DefaultPosition(idx) ==
    [x |-> NodeSpacing * (idx % RowLength), y |-> 0 - RowDrop * RowDrops(idx)]

\* DataModel.to_arrows_dict
DataModelToArrowsDict(m) ==
    [nodes |-> [i \in 1..Len(m.nodes) |->
                    NodeToArrows(m.nodes[i], DefaultPosition(i - 1))],
     relationships |-> [i \in 1..Len(m.relationships) |->
                            RelationshipToArrows(m.relationships[i])],
     style |-> DictGet(m.metadata, "style", EmptyDict)]

(***************************************************************************)
(* Arrows import                                                            *)
(***************************************************************************)
\* Property.from_arrows without the strip of the segments
PropertyFromArrowsUnstripped(name, value) ==
    IF StrContains(value, <<"|">>)
    THEN LET prop_props == StrSplit(value)
         IN  Property(name, prop_props[1], None,
                      IF StrLower(prop_props[2]) # <<"k", "e", "y">>
                      THEN Some(prop_props[2]) ELSE None)
    ELSE Property(name, value, None, None)

\* Property.from_arrows of the one-entry dict {name: value}
PropertyFromArrows(name, value) ==
    IF StrContains(value, <<"|">>)
    THEN LET parts == StrSplit(value)
             prop_props == [i \in 1..Len(parts) |-> StrStrip(parts[i])]
         IN  Property(name, prop_props[1], None,
                      IF StrLower(prop_props[2]) # <<"k", "e", "y">>
                      THEN Some(prop_props[2]) ELSE None)
    ELSE Property(name, value, None, None)

\* "KEY" in v.upper()
MarkedKey(value) == StrContains(StrUpper(value), KEY)

\* the props comprehension of Node.from_arrows and Relationship.from_arrows
PropsFromArrows(properties) ==
    LET kept == SelectIdx(properties,
                          {i \in DOMAIN properties : ~MarkedKey(properties[i][2])})
    IN  [i \in 1..Len(kept) |-> PropertyFromArrows(kept[i][1], kept[i][2])]

\* key_prop of Node.from_arrows and Relationship.from_arrows
KeyFromArrows(properties) ==
    LET keys == SelectIdx(properties,
                          {i \in DOMAIN properties : MarkedKey(properties[i][2])})
    IN  IF keys # << >> THEN Some(PropertyFromArrows(keys[1][1], keys[1][2]))
        ELSE None

\* Node.from_arrows
NodeFromArrows(arrows_node_dict) ==
    NodeInit(arrows_node_dict.labels[1],
             KeyFromArrows(arrows_node_dict.properties),
             PropsFromArrows(arrows_node_dict.properties),
             [position |-> arrows_node_dict.position,
              caption |-> arrows_node_dict.caption,
              style |-> arrows_node_dict.style])

\* node_id_to_label_map built from the last label of each node
IdToLabelLastLabel(arrows_nodes, id) ==
    LET hits == {i \in DOMAIN arrows_nodes : arrows_nodes[i].id = id}
        n == arrows_nodes[CHOOSE i \in hits : \A j \in hits : j <= i]
    IN  IF hits = {} THEN None ELSE Some(n.labels[Len(n.labels)])

\* node_id_to_label_map of DataModel.from_arrows: later ids overwrite earlier
IdToLabel(arrows_nodes, id) ==
    LET hits == {i \in DOMAIN arrows_nodes : arrows_nodes[i].id = id}
    IN  IF hits = {} THEN None
        ELSE Some(arrows_nodes[CHOOSE i \in hits : \A j \in hits : j <= i].labels[1])

\* Relationship.from_arrows
RelationshipFromArrows(arrows_relationship_dict, arrows_nodes) ==
    LET from == IdToLabel(arrows_nodes, arrows_relationship_dict.fromId)
        to == IdToLabel(arrows_nodes, arrows_relationship_dict.toId)
    IN  IF from = None THEN KeyErrorOf(arrows_relationship_dict.fromId)
        ELSE IF to = None THEN KeyErrorOf(arrows_relationship_dict.toId)
        ELSE RelationshipInit(arrows_relationship_dict.type, from[1], to[1],
                              KeyFromArrows(arrows_relationship_dict.properties),
                              PropsFromArrows(arrows_relationship_dict.properties),
                              [style |-> arrows_relationship_dict.style])

\* the outcome of the first element of a list of outcomes that raised
FirstRaised(outs) ==
    outs[CHOOSE i \in DOMAIN outs :
        /\ outs[i].raised # "none"
        /\ \A j \in 1..(i - 1) : outs[j].raised = "none"]

\* DataModel.from_arrows
DataModelFromArrows(arrows_data_model_dict) ==
    LET nodeOuts == [i \in 1..Len(arrows_data_model_dict.nodes) |->
                         NodeFromArrows(arrows_data_model_dict.nodes[i])]
        relOuts == [i \in 1..Len(arrows_data_model_dict.relationships) |->
                        RelationshipFromArrows(
                            arrows_data_model_dict.relationships[i],
                            arrows_data_model_dict.nodes)]
    IN  IF \E i \in DOMAIN nodeOuts : nodeOuts[i].raised # "none"
        THEN FirstRaised(nodeOuts)
        ELSE IF \E i \in DOMAIN relOuts : relOuts[i].raised # "none"
        THEN FirstRaised(relOuts)
        ELSE DataModelInit([i \in DOMAIN nodeOuts |-> nodeOuts[i].value[1]],
                           [i \in DOMAIN relOuts |-> relOuts[i].value[1]],
                           [style |-> arrows_data_model_dict.style])

(***************************************************************************)
(* Inputs of the calls.                                                     *)
(***************************************************************************)
SeqsUpTo(S, n) == UNION {[1..k -> S] : k \in 0..n}

STRING_T == <<"S">>
DATE_T == <<"D">>

KeyId == Property("id", <<"s">>, None, None)
KeyCode == Property("code", STRING_T, None, None)

\* the Node objects handed to DataModel(...) and to add_node
NodeInputs ==
    {NodeInit(l, Some(KeyId), << >>, EmptyDict).value[1] : l \in {"A", "B"}}
        \cup {NodeInit("A", Some(KeyCode), << >>, EmptyDict).value[1]}

\* the Relationship objects handed to DataModel(...) and to add_relationship
RelTypes == {"R", "S"}
EndLabels == {"A", "B"}
PlainRelationships ==
    {RelationshipInit(t, s, e, None, << >>, EmptyDict).value[1] :
        t \in RelTypes, s \in EndLabels, e \in EndLabels}

\* start_node_label and end_node_label are plain str fields: two relationships
\* that differ in both and yet have one pattern string,
\* "(:A)-[:R]->(:B)-[:R]->(:B)"
OddStart == "A)-[:R]->(:B"
OddEnd == "B)-[:R]->(:B"
OddRelationships ==
    {RelationshipInit("R", "A", OddEnd, None, << >>, EmptyDict).value[1],
     RelationshipInit("R", OddStart, "B", None, << >>, EmptyDict).value[1]}

RelationshipInputs == PlainRelationships \cup OddRelationships

\* the Property objects handed to Node(...), Relationship(...), add_property
\* and remove_property
PropertyInputs ==
    {KeyId,
     Property("id", DATE_T, None, None),
     Property("p", STRING_T, None, None),
     Property("p", STRING_T, None, Some(<<"d">>)),
     Property("q", <<"d">>, None, None)}

NoArgs == [nodes |-> << >>, relationships |-> << >>, properties |-> << >>,
           names |-> << >>]

Call(op, args, raised, errors) ==
    [op |-> op, args |-> args, raised |-> raised, errors |-> errors]

NoCall == Call("none", NoArgs, "none", << >>)

NoModel == [made |-> FALSE, nodes |-> << >>, relationships |-> << >>,
            metadata |-> EmptyDict]

Made(m) == [made |-> TRUE, nodes |-> m.nodes, relationships |-> m.relationships,
            metadata |-> m.metadata]

(***************************************************************************)
(* The DataModel object: construction, the four mutators, validation.       *)
(***************************************************************************)
Init ==
    /\ dm = NoModel
    /\ ent = None
    /\ doc = None
    /\ imp = None
    /\ src = None
    /\ pty = None
    /\ store = EmptyStore
    /\ calls = NoCalls
    /\ gen = None
    /\ db = EmptyGraph
    /\ last = NoCall
    /\ prev = NoModel

\* dm = DataModel(nodes=ns, relationships=rs), the first call of a run; when it
\* raises there is no object to go on with
Construct ==
    /\ ~dm.made
    /\ last.op = "none"
    /\ \E rs \in SeqsUpTo(RelationshipInputs, MaxRels),
          ns \in SeqsUpTo(NodeInputs, MaxNodes) :
          LET out == DataModelInit(ns, rs, EmptyDict)
          IN  /\ dm' = IF out.raised = "none" THEN Made(out.value[1]) ELSE dm
              /\ last' = Call("DataModel",
                              [NoArgs EXCEPT !.nodes = ns, !.relationships = rs],
                              out.raised, out.errors)
    /\ prev' = dm
    /\ UNCHANGED <<ent, doc, imp, src, pty, store, calls, gen, db>>

\* dm.add_node(n)
DoAddNode ==
    /\ dm.made
    /\ \E n \in NodeInputs :
          LET out == AddNode(dm.nodes, n)
          IN  /\ Len(out.nodes) <= MaxNodes
              /\ dm' = [dm EXCEPT !.nodes = out.nodes]
              /\ last' = Call("add_node", [NoArgs EXCEPT !.nodes = <<n>>],
                              out.raised, out.errors)
    /\ prev' = dm
    /\ UNCHANGED <<ent, doc, imp, src, pty, store, calls, gen, db>>

\* dm.add_relationship(r)
DoAddRelationship ==
    /\ dm.made
    /\ \E r \in RelationshipInputs :
          LET out == AddRelationship(dm.relationships, r)
          IN  /\ Len(out.relationships) <= MaxRels
              /\ dm' = [dm EXCEPT !.relationships = out.relationships]
              /\ last' = Call("add_relationship",
                              [NoArgs EXCEPT !.relationships = <<r>>],
                              out.raised, out.errors)
    /\ prev' = dm
    /\ UNCHANGED <<ent, doc, imp, src, pty, store, calls, gen, db>>

\* remove_node that also drops the relationships of the removed label
DoRemoveNodeCascading ==
    /\ dm.made
    /\ \E l \in EndLabels :
          /\ dm' = [dm EXCEPT
                       !.nodes = RemoveNode(dm.nodes, l),
                       !.relationships = SelectIdx(dm.relationships,
                           {i \in DOMAIN dm.relationships :
                               /\ dm.relationships[i].start_node_label # l
                               /\ dm.relationships[i].end_node_label # l})]
          /\ last' = Call("remove_node", [NoArgs EXCEPT !.names = <<l>>],
                          "none", << >>)
    /\ prev' = dm
    /\ UNCHANGED <<ent, doc, imp, src, pty, store, calls, gen, db>>

\* dm.remove_node(l)
DoRemoveNode ==
    /\ dm.made
    /\ \E l \in EndLabels :
          /\ dm' = [dm EXCEPT !.nodes = RemoveNode(dm.nodes, l)]
          /\ last' = Call("remove_node", [NoArgs EXCEPT !.names = <<l>>],
                          "none", << >>)
    /\ prev' = dm
    /\ UNCHANGED <<ent, doc, imp, src, pty, store, calls, gen, db>>

\* dm.remove_relationship(t, s, e)
DoRemoveRelationship ==
    /\ dm.made
    /\ \E r \in RelationshipInputs :
          LET t == r.type
              s == r.start_node_label
              e == r.end_node_label
          IN  /\ dm' = [dm EXCEPT !.relationships =
                                      RemoveRelationship(dm.relationships, t, s, e)]
              /\ last' = Call("remove_relationship",
                              [NoArgs EXCEPT !.names = <<t, s, e>>], "none", << >>)
    /\ prev' = dm
    /\ UNCHANGED <<ent, doc, imp, src, pty, store, calls, gen, db>>

\* a full validation of the model as it stands: the field validators run over
\* its nodes and relationships, as when the model is rebuilt from its data
Validate ==
    /\ dm.made
    /\ LET out == DataModelInit(dm.nodes, dm.relationships, dm.metadata)
       IN  last' = Call("validate", NoArgs, out.raised, out.errors)
    /\ prev' = dm
    /\ UNCHANGED <<dm, ent, doc, imp, src, pty, store, calls, gen, db>>

Next ==
    \/ Construct
    \/ DoAddNode
    \/ DoAddRelationship
    \/ DoRemoveNode
    \/ DoRemoveRelationship
    \/ Validate

Spec == Init /\ [][Next]_vars

(***************************************************************************)
(* Properties of the DataModel object (specification Spec).                 *)
(***************************************************************************)
Distinct(seq) == \A i, j \in DOMAIN seq : i # j => seq[i] # seq[j]

Triple(r) == <<r.start_node_label, r.type, r.end_node_label>>
Triples(relationships) == [i \in 1..Len(relationships) |-> Triple(relationships[i])]

IsDangling(r, nodes) ==
    \/ ~InSeq(r.start_node_label, Labels(nodes))
    \/ ~InSeq(r.end_node_label, Labels(nodes))

HasDangling(relationships, nodes) ==
    \E i \in DOMAIN relationships : IsDangling(relationships[i], nodes)

FirstDangling(relationships, nodes) ==
    relationships[CHOOSE i \in DOMAIN relationships :
        /\ IsDangling(relationships[i], nodes)
        /\ \A j \in 1..(i - 1) : ~IsDangling(relationships[j], nodes)]

\* the call raised exactly one error, of this kind
RaisedOnly(call, kind) ==
    /\ call.raised \in {"ValueError", "ValidationError"}
    /\ Len(call.errors) = 1
    /\ call.errors[1].kind = kind

\* C2: add_relationship of a relationship whose start or end label is not
\* the label of a node of the model fails with DanglingEndpoint and stores
\* nothing.
C2_AddDanglingRelationshipFails ==
    (/\ last.op = "add_relationship"
     /\ IsDangling(last.args.relationships[1], prev.nodes))
        => /\ RaisedOnly(last, "DanglingEndpoint")
           /\ dm.relationships = prev.relationships

\* C3: in every state reached from a constructed DataModel by add_node,
\* remove_node, add_relationship and remove_relationship, the node labels are
\* pairwise distinct, and add_node of a label that is present raises
\* DuplicateLabel and adds nothing.
C3_LabelsUnique ==
    /\ dm.made => Distinct(Labels(dm.nodes))
    /\ (/\ last.op = "add_node"
        /\ InSeq(last.args.nodes[1].label, Labels(prev.nodes)))
           => /\ RaisedOnly(last, "DuplicateLabel")
              /\ last.errors[1].subject = last.args.nodes[1].label
              /\ dm.nodes = prev.nodes

\* a node was offered whose label is that of a different node of the model,
\* and was turned down
C3_Witness ==
    /\ last.op = "add_node"
    /\ last.raised = "ValueError"
    /\ Len(dm.nodes) = 2
    /\ last.args.nodes[1] # dm.nodes[1]
    /\ last.args.nodes[1].label = dm.nodes[1].label

\* C4: in every such state no two relationships have the same (start label,
\* type, end label), and add_relationship of a pattern that is present raises
\* DuplicatePattern and adds nothing.
C4_PatternsUnique ==
    /\ dm.made => Distinct(Triples(dm.relationships))
    /\ (/\ last.op = "add_relationship"
        /\ InSeq(Triple(last.args.relationships[1]), Triples(prev.relationships)))
           => /\ RaisedOnly(last, "DuplicatePattern")
              /\ last.errors[1].subject = Pattern(last.args.relationships[1])
              /\ dm.relationships = prev.relationships

C4_Witness ==
    /\ last.op = "add_relationship"
    /\ last.raised = "ValueError"
    /\ Len(dm.relationships) = 2
    /\ Triple(last.args.relationships[1]) = Triple(dm.relationships[2])

\* C5: remove_node leaves the relationships as they were, also those of the
\* removed label, and a full validation of a model that holds a relationship
\* of a missing label fails with DanglingEndpoint.
C5_RemoveNodeKeepsRelationships ==
    /\ last.op = "remove_node" => dm.relationships = prev.relationships
    /\ (dm.made /\ HasDangling(dm.relationships, dm.nodes))
           => /\ DataModelInit(dm.nodes, dm.relationships, dm.metadata).raised
                  = "ValidationError"
              /\ RaisedOnly(DataModelInit(dm.nodes, dm.relationships, dm.metadata),
                            "DanglingEndpoint")
    /\ (last.op = "validate" /\ HasDangling(dm.relationships, dm.nodes))
           => RaisedOnly(last, "DanglingEndpoint")

\* a node that a relationship starts or ends at has just been removed
C5_Witness ==
    /\ last.op = "remove_node"
    /\ InSeq(last.args.names[1], Labels(prev.nodes))
    /\ ~InSeq(last.args.names[1], Labels(dm.nodes))
    /\ \E i \in DOMAIN dm.relationships :
           \/ dm.relationships[i].start_node_label = last.args.names[1]
           \/ dm.relationships[i].end_node_label = last.args.names[1]
    /\ ~HasDangling(prev.relationships, prev.nodes)

\* C6: a second node of a used label, in the constructor's node list or
\* through add_node, fails with a DuplicateLabel error that carries the label
\* and the count 2.
C6_DuplicateLabelReportsCount ==
    /\ (/\ last.op = "add_node"
        /\ Count(Labels(prev.nodes), last.args.nodes[1].label) = 1)
           => /\ RaisedOnly(last, "DuplicateLabel")
              /\ last.errors[1].subject = last.args.nodes[1].label
              /\ last.errors[1].count = 2
    /\ (/\ last.op = "DataModel"
        /\ Len(last.args.nodes) = 2
        /\ last.args.nodes[1].label = last.args.nodes[2].label)
           => /\ last.raised = "ValidationError"
              /\ last.errors # << >>
              /\ last.errors[1].kind = "DuplicateLabel"
              /\ last.errors[1].subject = last.args.nodes[1].label
              /\ last.errors[1].count = 2

\* the invariant a list of nodes and relationships breaks first, in the order
\* DuplicateLabel, DuplicatePattern, DanglingEndpoint ("" when it breaks none)
FirstBroken(nodes, relationships) ==
    IF ~Distinct(Labels(nodes)) THEN "DuplicateLabel"
    ELSE IF ~Distinct(Patterns(relationships)) THEN "DuplicatePattern"
    ELSE IF HasDangling(relationships, nodes) THEN "DanglingEndpoint"
    ELSE ""

\* C7: validation of a model that breaks one or more invariants reports
\* exactly one failure, the first in the order DuplicateLabel,
\* DuplicatePattern, DanglingEndpoint.
C7_FailFastOrder ==
    (/\ last.op = "DataModel"
     /\ FirstBroken(last.args.nodes, last.args.relationships) # "")
        => /\ last.raised = "ValidationError"
           /\ RaisedOnly(last, FirstBroken(last.args.nodes, last.args.relationships))

\* C8 as stated: constructing a DataModel in which some relationship has a
\* missing endpoint fails with DanglingEndpoint naming that relationship.
C8_DanglingAlwaysReported ==
    (/\ last.op = "DataModel"
     /\ HasDangling(last.args.relationships, last.args.nodes))
        => /\ last.raised = "ValidationError"
           /\ RaisedOnly(last, "DanglingEndpoint")

\* C8 (amended): constructing a DataModel with pairwise distinct node labels
\* and pairwise distinct relationship patterns in which some relationship has
\* a missing endpoint fails with DanglingEndpoint naming the pattern of the
\* first such relationship in list order, as a missing start node when its
\* start label is missing (whether or not its end label is) and as a missing
\* end node otherwise.
C8_DanglingReportedWhenOtherwiseValid ==
    (/\ last.op = "DataModel"
     /\ Distinct(Labels(last.args.nodes))
     /\ Distinct(Patterns(last.args.relationships))
     /\ HasDangling(last.args.relationships, last.args.nodes))
        => LET r == FirstDangling(last.args.relationships, last.args.nodes)
           IN  /\ last.raised = "ValidationError"
               /\ RaisedOnly(last, "DanglingEndpoint")
               /\ last.errors[1].subject = Pattern(r)
               /\ last.errors[1].form =
                      IF ~InSeq(r.start_node_label, Labels(last.args.nodes))
                      THEN "start_missing" ELSE "end_missing"
               /\ ~dm.made

\* the second relationship of the list is the first with a missing endpoint,
\* and it misses both
C8_Witness ==
    /\ last.op = "DataModel"
    /\ Len(last.args.nodes) = 1
    /\ Len(last.args.relationships) = 2
    /\ ~IsDangling(last.args.relationships[1], last.args.nodes)
    /\ ~InSeq(last.args.relationships[2].start_node_label, Labels(last.args.nodes))
    /\ ~InSeq(last.args.relationships[2].end_node_label, Labels(last.args.nodes))
    /\ last.raised = "ValidationError"
    /\ last.errors[1].form = "start_missing"

C13_PatternStringIsTheKey ==
    /\ \A i \in DOMAIN dm.relationships :
           LET r == dm.relationships[i]
           IN  /\ Pattern(r) = "(:" \o r.start_node_label \o ")-[:" \o r.type
                                    \o "]->(:" \o r.end_node_label \o ")"
               /\ Triple(r) = <<"A", "R", "B">> => Pattern(r) = "(:A)-[:R]->(:B)"
    /\ last.op = "add_relationship" =>
           IF InSeq(Pattern(last.args.relationships[1]), Patterns(prev.relationships))
           THEN /\ RaisedOnly(last, "DuplicatePattern")
                /\ last.errors[1].subject = Pattern(last.args.relationships[1])
                /\ dm = prev
           ELSE /\ last.raised = "none"
                /\ dm.relationships =
                       Append(prev.relationships, last.args.relationships[1])
    /\ (last.op = "DataModel" /\ Distinct(Labels(last.args.nodes))) =>
           IF Distinct(Patterns(last.args.relationships))
           THEN \A i \in DOMAIN last.errors : last.errors[i].kind # "DuplicatePattern"
           ELSE /\ RaisedOnly(last, "DuplicatePattern")
                /\ Count(Patterns(last.args.relationships), last.errors[1].subject)
                       = last.errors[1].count
                /\ last.errors[1].count >= 2
    /\ last.op = "validate" =>
           /\ Distinct(Patterns(dm.relationships))
           /\ \A i \in DOMAIN last.errors : last.errors[i].kind # "DuplicatePattern"
    /\ last.op = "remove_relationship" =>
           \A i \in DOMAIN prev.relationships :
               InSeq(prev.relationships[i], dm.relationships)
                   <=> Pattern(prev.relationships[i]) #
                           "(:" \o last.args.names[2] \o ")-[:" \o last.args.names[1]
                                \o "]->(:" \o last.args.names[3] \o ")"

\* a relationship was turned down whose three fields are those of no stored
\* relationship, its pattern string being that of a stored one
C13_Witness ==
    /\ last.op = "add_relationship"
    /\ last.raised = "ValueError"
    /\ ~InSeq(Triple(last.args.relationships[1]), Triples(prev.relationships))
    /\ InSeq(Pattern(last.args.relationships[1]), Patterns(prev.relationships))

(***************************************************************************)
(* A free-standing Node or Relationship object: construction, add_property, *)
(* remove_property (specification SpecEntity).                              *)
(***************************************************************************)
IsNode(e) == "label" \in DOMAIN e

InitEntity ==
    /\ dm = NoModel
    /\ ent = None
    /\ doc = None
    /\ imp = None
    /\ src = None
    /\ pty = None
    /\ store = EmptyStore
    /\ calls = NoCalls
    /\ gen = None
    /\ db = EmptyGraph
    /\ last = NoCall
    /\ prev = None

\* ent = Node(label=l, key_property=KeyId, properties=ps)
NewNode ==
    /\ ent = None
    /\ last.op = "none"
    /\ \E l \in {"A", ""}, ps \in SeqsUpTo(PropertyInputs, MaxProps) :
          LET out == NodeInit(l, Some(KeyId), ps, EmptyDict)
          IN  /\ ent' = out.value
              /\ last' = Call("Node", [NoArgs EXCEPT !.properties = ps,
                                                     !.names = <<l, "id">>],
                              out.raised, out.errors)
    /\ prev' = ent
    /\ UNCHANGED <<dm, doc, imp, src, pty, store, calls, gen, db>>

\* ent = Relationship(type=t, start_node_label="A", end_node_label="B",
\*                    key_property=k, properties=ps)
NewRelationship ==
    /\ ent = None
    /\ last.op = "none"
    /\ \E t \in {"R", ""}, k \in {None, Some(KeyId)},
          ps \in SeqsUpTo(PropertyInputs, MaxProps) :
          LET out == RelationshipInit(t, "A", "B", k, ps, EmptyDict)
          IN  /\ ent' = out.value
              /\ last' = Call("Relationship",
                              [NoArgs EXCEPT !.properties = ps,
                                             !.names = <<t>> \o Names(k)],
                              out.raised, out.errors)
    /\ prev' = ent
    /\ UNCHANGED <<dm, doc, imp, src, pty, store, calls, gen, db>>

\* ent.add_property(p)
DoAddProperty ==
    /\ ent # None
    /\ \E p \in PropertyInputs :
          LET out == IF IsNode(ent[1]) THEN NodeAddProperty(ent[1], p)
                     ELSE RelationshipAddProperty(ent[1], p)
          IN  /\ Len(out.properties) <= MaxProps
              /\ ent' = <<[ent[1] EXCEPT !.properties = out.properties]>>
              /\ last' = Call("add_property", [NoArgs EXCEPT !.properties = <<p>>],
                              out.raised, out.errors)
    /\ prev' = ent
    /\ UNCHANGED <<dm, doc, imp, src, pty, store, calls, gen, db>>

\* ent.remove_property(p)
DoRemoveProperty ==
    /\ ent # None
    /\ \E p \in PropertyInputs :
          /\ ent' = <<[ent[1] EXCEPT !.properties =
                          IF IsNode(ent[1]) THEN NodeRemoveProperty(ent[1], p)
                          ELSE RelationshipRemoveProperty(ent[1], p)]>>
          /\ last' = Call("remove_property", [NoArgs EXCEPT !.properties = <<p>>],
                          "none", << >>)
    /\ prev' = ent
    /\ UNCHANGED <<dm, doc, imp, src, pty, store, calls, gen, db>>

NextEntity ==
    \/ NewNode
    \/ NewRelationship
    \/ DoAddProperty
    \/ DoRemoveProperty

SpecEntity == InitEntity /\ [][NextEntity]_vars

(***************************************************************************)
(* Properties of Node and Relationship objects (specification SpecEntity).  *)
(***************************************************************************)
\* the name of the object's key property, as a list of at most one name
KeyNames(e) == IF IsNode(e) THEN <<e.key_property.name>> ELSE Names(e.key_property)

\* C9: a property named like the key property, given to the constructor or
\* to add_property, raises no error and never becomes an entry of properties.
C9_KeyNamedPropertyAbsorbed ==
    /\ ent # None =>
           \A i \in DOMAIN ent[1].properties :
               ~InSeq(ent[1].properties[i].name, KeyNames(ent[1]))
    /\ (/\ last.op = "add_property"
        /\ InSeq(last.args.properties[1].name, KeyNames(prev[1])))
           => last.raised = "none"
    /\ (/\ last.op \in {"Node", "Relationship"}
        /\ last.args.names[1] # ""
        /\ Len(last.args.names) = 2
        /\ Distinct(Names(DropKeyNamed(last.args.properties, last.args.names[2]))))
           => last.raised = "none"

\* the names other than the key property's that the constructor call was given
\* more than once
DuplicatedNames(call) ==
    {n \in {call.args.properties[i].name : i \in DOMAIN call.args.properties} :
        /\ ~InSeq(n, SelectIdx(call.args.names, {i \in DOMAIN call.args.names : i > 1}))
        /\ Count(Names(call.args.properties), n) >= 2}

\* the label of the Node, or the pattern of the Relationship between A and B,
\* that the constructor call was to build
OwnerOf(call) ==
    IF call.op = "Node" THEN call.args.names[1]
    ELSE GenerateRelationshipPattern("A", call.args.names[1], "B")

\* C11: Node(...) or Relationship(...) given a properties list in which a name
\* other than the key property's occurs twice fails with a validation error,
\* and an error of the failure is a DuplicateProperty that carries the
\* duplicated name, the number of its occurrences and the node's label or the
\* relationship's pattern.
C11_ConstructorReportsDuplicateProperty ==
    (/\ last.op \in {"Node", "Relationship"}
     /\ DuplicatedNames(last) # {})
        => /\ last.raised \in {"ValueError", "ValidationError"}
           /\ ent = None
           /\ \E i \in DOMAIN last.errors :
                  /\ last.errors[i].kind = "DuplicateProperty"
                  /\ last.errors[i].subject \in DuplicatedNames(last)
                  /\ last.errors[i].count =
                         Count(Names(last.args.properties), last.errors[i].subject)
                  /\ last.errors[i].owner = OwnerOf(last)

\* C10: add_property(p) raises DuplicateProperty, changing nothing, exactly
\* when an entry of properties has p's name, and appends p as the last entry
\* otherwise; the names in properties stay pairwise distinct under
\* add_property and remove_property.
C10_AddPropertyDuplicateCheck ==
    /\ ent # None => Distinct(Names(ent[1].properties))
    /\ last.op = "add_property" =>
           IF InSeq(last.args.properties[1].name, Names(prev[1].properties))
           THEN /\ RaisedOnly(last, "DuplicateProperty")
                /\ last.errors[1].subject = last.args.properties[1].name
                /\ ent = prev
           ELSE /\ last.raised = "none"
                /\ ent[1].properties =
                       Append(prev[1].properties, last.args.properties[1])
                /\ ent[1] = [prev[1] EXCEPT !.properties = ent[1].properties]

\* a property is offered whose name is taken by an entry that differs from it
C10_Witness ==
    /\ last.op = "add_property"
    /\ last.raised = "ValueError"
    /\ Len(ent[1].properties) = 2
    /\ \E i \in DOMAIN ent[1].properties :
           /\ ent[1].properties[i].name = last.args.properties[1].name
           /\ ent[1].properties[i] # last.args.properties[1]

(***************************************************************************)
(* Export to Arrows and import of the exported document (specification      *)
(* SpecArrows).                                                             *)
(***************************************************************************)
ArrowsKeyInputs ==
    {KeyId, Property("id", STRING_T, None, Some(<<"d">>))}

ArrowsPropertyInputs ==
    {Property("p", <<"s">>, None, None),
     Property("p", STRING_T, None, Some(<<"d">>)),
     Property("q", DATE_T, Some(PropertySource(Some("col"), None, None)), None),
     Property("q", STRING_T, None, Some(<<"k", "e", "y">>)),
     Property("q", STRING_T, None, Some(<<"a", "|", "d">>))}

NodeB == NodeInit("B", Some(KeyCode), << >>, EmptyDict).value[1]

InitArrows ==
    /\ dm = NoModel
    /\ ent = None
    /\ doc = None
    /\ imp = None
    /\ src = None
    /\ pty = None
    /\ store = EmptyStore
    /\ calls = NoCalls
    /\ gen = None
    /\ db = EmptyGraph
    /\ last = NoCall
    /\ prev = NoModel

\* dm = DataModel(nodes=[Node("A", k, ps)] or [Node("A", k, ps), Node("B")],
\*                relationships=[] or [Relationship("R", "A", "B", rk, rps)])
ConstructForExport ==
    /\ ~dm.made
    /\ last.op = "none"
    /\ \E k \in ArrowsKeyInputs, ps \in SeqsUpTo(ArrowsPropertyInputs, MaxProps),
          withB \in BOOLEAN, withR \in BOOLEAN,
          rk \in {None, Some(KeyId)}, rps \in SeqsUpTo(ArrowsPropertyInputs, 1) :
          LET a == NodeInit("A", Some(k), ps, EmptyDict)
              r == RelationshipInit("R", "A", "B", rk, rps, EmptyDict)
              ns == IF withB THEN <<a.value[1], NodeB>> ELSE <<a.value[1]>>
              rs == IF withR THEN <<r.value[1]>> ELSE << >>
              out == DataModelInit(ns, rs, EmptyDict)
          IN  /\ a.raised = "none"
              /\ withR => withB
              /\ ~withR => (rk = None /\ rps = << >>)
              /\ dm' = Made(out.value[1])
              /\ last' = Call("DataModel",
                              [NoArgs EXCEPT !.nodes = ns, !.relationships = rs],
                              out.raised, out.errors)
    /\ prev' = dm
    /\ UNCHANGED <<ent, doc, imp, src, pty, store, calls, gen, db>>

\* the labels of the nodes of a model that has only nodes
GridLabels == <<"N0", "N1", "N2", "N3", "N4", "N5", "N6", "N7">>

\* dm = DataModel(nodes=[Node("N0"), ..., Node("N<n-1>")]), the nodes of the
\* set placed having a position in their metadata, the others none
ConstructGrid ==
    /\ ~dm.made
    /\ last.op = "none"
    /\ \E n \in 1..MaxGridNodes :
          \E placed \in SUBSET (1..n) :
              LET ns == [i \in 1..n |->
                            NodeInit(GridLabels[i], Some(KeyId), << >>,
                                     IF i \in placed
                                     THEN [position |-> [x |-> 7, y |-> 9]]
                                     ELSE EmptyDict).value[1]]
                  out == DataModelInit(ns, << >>, EmptyDict)
              IN  /\ n <= Len(GridLabels)
                  /\ dm' = Made(out.value[1])
                  /\ last' = Call("DataModel", [NoArgs EXCEPT !.nodes = ns],
                                  out.raised, out.errors)
    /\ prev' = dm
    /\ UNCHANGED <<ent, doc, imp, src, pty, store, calls, gen, db>>

\* doc = dm.to_arrows_dict()
DoExport ==
    /\ dm.made
    /\ doc = None
    /\ doc' = Some(DataModelToArrowsDict(dm))
    /\ last' = Call("to_arrows_dict", NoArgs, "none", << >>)
    /\ prev' = dm
    /\ UNCHANGED <<dm, ent, imp, src, pty, store, calls, gen, db>>

\* imp = DataModel.from_arrows(doc)
DoImport ==
    /\ doc # None
    /\ imp = None
    /\ LET out == DataModelFromArrows(doc[1])
       IN  /\ imp' = Some(out)
           /\ last' = Call("from_arrows", NoArgs, out.raised, out.errors)
    /\ prev' = dm
    /\ UNCHANGED <<dm, ent, doc, src, pty, store, calls, gen, db>>

NextArrows ==
    \/ ConstructForExport
    \/ ConstructGrid
    \/ DoExport
    \/ DoImport

SpecArrows == InitArrows /\ [][NextArrows]_vars

(***************************************************************************)
(* An Arrows document that comes from outside: import, then export          *)
(* (specification SpecImport).                                              *)
(***************************************************************************)
\* encoded property values: T, T|D, T|KEY and T|D|KEY with and without spaces
\* round the pipes and in either case, and two values that hold the letters
\* k, e, y without holding a segment KEY
ArrowsValueInputs ==
    {<<"s">>,
     <<"S", "|", "d">>,
     <<"d", " ", "|", " ", "d">>,
     <<"S", "|", "K", "E", "Y">>,
     <<"S", " ", "|", " ", "k", "e", "y">>,
     <<"S", "|", "d", "|", "K", "E", "Y">>,
     <<"D", " ", "|", " ", "d", " ", "|", " ", "K", "e", "y">>,
     <<"S", "|", "k", "e", "y", "s">>,
     <<"K", "E", "Y", "S">>}

\* the values of these that the properties of a node are drawn from
ArrowsNodeValueInputs ==
    {<<"s">>,
     <<"d", " ", "|", " ", "d">>,
     <<"S", "|", "K", "E", "Y">>,
     <<"D", " ", "|", " ", "d", " ", "|", " ", "K", "e", "y">>,
     <<"S", "|", "k", "e", "y", "s">>}

\* the keys of a properties dict, in insertion order
ArrowsPropertyNames == <<"p", "q", "r">>

\* the properties dicts of at most n entries with values of the set values
ArrowsPropertiesInputs(values, n) ==
    {[i \in 1..Len(vs) |-> <<ArrowsPropertyNames[i], vs[i]>>] :
        vs \in SeqsUpTo(values, n)}

\* the first node of a document: id "n0", first label "A"
ArrowsNodeA(labels, properties) ==
    [id |-> "n0", labels |-> labels, properties |-> properties,
     style |-> [color |-> "red"], position |-> [x |-> 30, y |-> 40],
     caption |-> "a"]

\* the second node of a document, if any: id "n1", first label "B", with or
\* without a key property
ArrowsNodeB(withKey) ==
    [id |-> "n1", labels |-> <<"B", "X">>,
     properties |-> IF withKey THEN <<<<"id", <<"S", "|", "K", "E", "Y">>>>>>
                    ELSE << >>,
     style |-> EmptyDict, position |-> [x |-> 50, y |-> 60], caption |-> ""]

ArrowsRelationship(fromId, toId, properties) ==
    [fromId |-> fromId, toId |-> toId, type |-> "R", properties |-> properties,
     style |-> [width |-> "thin"]]

ArrowsIds == {"n0", "n1", "n9"}

InitImport ==
    /\ dm = NoModel
    /\ ent = None
    /\ doc = None
    /\ imp = None
    /\ src = None
    /\ pty = None
    /\ store = EmptyStore
    /\ calls = NoCalls
    /\ gen = None
    /\ db = EmptyGraph
    /\ last = NoCall
    /\ prev = NoModel

\* dm = DataModel.from_arrows(d), the first call of a run; when it raises there
\* is no object to go on with
ImportDocument ==
    /\ ~dm.made
    /\ last.op = "none"
    /\ \E ps \in ArrowsPropertiesInputs(ArrowsNodeValueInputs, MaxProps),
          others \in {<< >>, <<ArrowsNodeB(TRUE)>>, <<ArrowsNodeB(FALSE)>>},
          withR \in BOOLEAN, fromId \in ArrowsIds, toId \in ArrowsIds,
          rps \in ArrowsPropertiesInputs(ArrowsValueInputs, 1) :
          LET d == [nodes |-> <<ArrowsNodeA(<<"A">>, ps)>> \o others,
                    relationships |->
                        IF withR THEN <<ArrowsRelationship(fromId, toId, rps)>>
                        ELSE << >>,
                    style |-> [theme |-> "dark"]]
              out == DataModelFromArrows(d)
          IN  /\ ~withR => (fromId = "n0" /\ toId = "n0")
              /\ (~withR \/ fromId # "n0" \/ toId # "n1") => rps = << >>
              /\ src' = Some(d)
              /\ dm' = IF out.raised = "none" THEN Made(out.value[1]) ELSE dm
              /\ last' = Call("from_arrows", NoArgs, out.raised, out.errors)
    /\ prev' = dm
    /\ UNCHANGED <<ent, doc, imp, pty, store, calls, gen, db>>

NextImport ==
    \/ ImportDocument
    \/ DoExport

SpecImport == InitImport /\ [][NextImport]_vars

(***************************************************************************)
(* Properties of the import of a document (specification SpecImport).       *)
(***************************************************************************)
\* the pipe-separated segments of an encoded value, whitespace trimmed
Segments(value) ==
    [i \in 1..Len(StrSplit(value)) |-> StrStrip(StrSplit(value)[i])]

\* one of the segments is the token KEY, in any letter case
HasKeySegment(value) ==
    \E i \in DOMAIN Segments(value) : StrUpper(Segments(value)[i]) = KEY

\* the entries of a properties dict whose value has a segment KEY
KeySegmentEntries(properties) ==
    {i \in DOMAIN properties : HasKeySegment(properties[i][2])}

\* of a properties dict, the entries with a segment KEY are the ones named by
\* keyNames, the others are named in propNames
KeyIffSegment(properties, keyNames, propNames) ==
    \A i \in DOMAIN properties :
        /\ InSeq(properties[i][1], keyNames) <=> HasKeySegment(properties[i][2])
        /\ ~HasKeySegment(properties[i][2]) => InSeq(properties[i][1], propNames)

\* C14: after a successful import, of every node and relationship of the
\* document (at most one of whose values has a segment KEY) the property
\* whose encoded value has a segment KEY, compared without regard to case, is
\* the entity's key property, and each property whose value has no such
\* segment, whatever letters its type or description holds, is an entry of
\* its properties list.
C14_KeyIffKeySegment ==
    (src # None /\ dm.made) =>
        /\ \A i \in DOMAIN src[1].nodes :
               Cardinality(KeySegmentEntries(src[1].nodes[i].properties)) <= 1
                   => KeyIffSegment(src[1].nodes[i].properties,
                                    <<dm.nodes[i].key_property.name>>,
                                    Names(dm.nodes[i].properties))
        /\ \A i \in DOMAIN src[1].relationships :
               Cardinality(KeySegmentEntries(src[1].relationships[i].properties)) <= 1
                   => KeyIffSegment(src[1].relationships[i].properties,
                                    Names(dm.relationships[i].key_property),
                                    Names(dm.relationships[i].properties))

\* the call failed for want of a key property: a line error of that kind, or
\* the KeyError of the lookup of key_property
FailedForMissingKey(call) ==
    /\ call.raised # "none"
    /\ \E i \in DOMAIN call.errors :
           \/ call.errors[i].kind = "MissingKeyProperty"
           \/ (call.raised = "KeyError" /\ call.errors[i].subject = "key_property")

\* every fromId and toId of the document is the id of one of its nodes
IdsResolve(d) ==
    \A i \in DOMAIN d.relationships :
        /\ IdToLabel(d.nodes, d.relationships[i].fromId) # None
        /\ IdToLabel(d.nodes, d.relationships[i].toId) # None

\* C15: the import of a document with a node none of whose property values
\* has a segment KEY, whether it has other properties or none, fails for
\* want of a key property and gives no model; a relationship none of whose
\* values has a segment KEY does not make the import fail and is imported
\* with key_property None.
C15_KeylessNodeFailsKeylessRelationshipImports ==
    src # None =>
        /\ (\E i \in DOMAIN src[1].nodes :
                KeySegmentEntries(src[1].nodes[i].properties) = {})
               => (FailedForMissingKey(last) /\ ~dm.made)
        /\ (/\ \A i \in DOMAIN src[1].nodes :
                   KeySegmentEntries(src[1].nodes[i].properties) # {}
            /\ IdsResolve(src[1]))
               => /\ last.raised = "none"
                  /\ \A i \in DOMAIN src[1].relationships :
                         KeySegmentEntries(src[1].relationships[i].properties) = {}
                             => dm.relationships[i].key_property = None

\* what an encoded value of one to three segments stands for
Decoded(name, value) ==
    [name |-> name,
     type |-> StrUpper(Segments(value)[1]),
     source |-> None,
     description |-> IF /\ Len(Segments(value)) >= 2
                        /\ StrUpper(Segments(value)[2]) # KEY
                     THEN Some(Segments(value)[2]) ELSE None]

\* the entities of a document and of a model, nodes first
DocEntities(d) == d.nodes \o d.relationships
ModelEntities(m) == m.nodes \o m.relationships

\* the key property, if any, and the properties of a Node or Relationship
AllProperties(e) ==
    (IF IsNode(e) THEN <<e.key_property>> ELSE e.key_property) \o e.properties

\* C16: Property.from_arrows of every encoded value of a document, of the
\* forms T, T|D, T|KEY and T|D|KEY with or without spaces round the pipes,
\* has segment 0 in upper case as its type and segment 1 as its description
\* when there is a segment 1 other than KEY, and no description otherwise;
\* the properties of an imported node or relationship are these; and the node
\* {p: "S|KEY", q: "s"} imports with key property p:S and the one property
\* q:S, neither with a description.
C16_EncodedValueDecoding ==
    src # None =>
        /\ \A i \in DOMAIN DocEntities(src[1]) :
               \A j \in DOMAIN DocEntities(src[1])[i].properties :
                   LET entry == DocEntities(src[1])[i].properties[j]
                   IN  /\ Len(Segments(entry[2])) \in 1..3
                       /\ PropertyFromArrows(entry[1], entry[2])
                              = Decoded(entry[1], entry[2])
        /\ dm.made =>
               \A i \in DOMAIN ModelEntities(dm) :
                   \A j \in DOMAIN AllProperties(ModelEntities(dm)[i]) :
                       \E k \in DOMAIN DocEntities(src[1])[i].properties :
                           AllProperties(ModelEntities(dm)[i])[j] =
                               Decoded(DocEntities(src[1])[i].properties[k][1],
                                       DocEntities(src[1])[i].properties[k][2])
        /\ (/\ dm.made
            /\ src[1].nodes[1].properties =
                   <<<<"p", <<"S", "|", "K", "E", "Y">>>>, <<"q", <<"s">>>>>>)
               => /\ dm.nodes[1].label = "A"
                  /\ dm.nodes[1].key_property =
                         [name |-> "p", type |-> <<"S">>, source |-> None,
                          description |-> None]
                  /\ dm.nodes[1].properties =
                         <<[name |-> "q", type |-> <<"S">>, source |-> None,
                            description |-> None]>>

\* a node has been imported whose key is of the form T | D | KEY and whose
\* other property is of the form T | D, both with spaces round the pipes
C16_Witness ==
    /\ src # None
    /\ dm.made
    /\ src[1].nodes[1].properties =
           <<<<"p", <<"D", " ", "|", " ", "d", " ", "|", " ", "K", "e", "y">>>>,
             <<"q", <<"d", " ", "|", " ", "d">>>>>>
    /\ dm.nodes[1].key_property.description = Some(<<"d">>)
    /\ dm.nodes[1].properties[1].type = <<"D">>
    /\ dm.nodes[1].properties[1].description = Some(<<"d">>)

\* the ids of the nodes of a document
NodeIds(d) == {d.nodes[i].id : i \in DOMAIN d.nodes}

\* the first label of the node of the document with this id
FirstLabelOf(d, id) ==
    (CHOOSE n \in {d.nodes[i] : i \in DOMAIN d.nodes} : n.id = id).labels[1]

\* the import failed on the lookup of an id that no node of the document has
FailedForUnknownId(call, d) ==
    /\ call.raised = "KeyError"
    /\ Len(call.errors) = 1
    /\ call.errors[1].subject \notin NodeIds(d)
    /\ \E i \in DOMAIN d.relationships :
           call.errors[1].subject \in {d.relationships[i].fromId,
                                       d.relationships[i].toId}

\* the relationships of the imported model start and end at the first labels
\* of the nodes that fromId and toId name
EndpointsResolved(m, d) ==
    /\ Len(m.relationships) = Len(d.relationships)
    /\ \A i \in DOMAIN d.relationships :
           /\ m.relationships[i].start_node_label =
                  FirstLabelOf(d, d.relationships[i].fromId)
           /\ m.relationships[i].end_node_label =
                  FirstLabelOf(d, d.relationships[i].toId)

\* each node of the document, taken alone, imports
NodesImport(d) ==
    \A i \in DOMAIN d.nodes : NodeFromArrows(d.nodes[i]).raised = "none"

C18_ImportedMetadataReemitted ==
    (src # None /\ doc # None) =>
        /\ Len(doc[1].nodes) = Len(src[1].nodes)
        /\ Len(doc[1].relationships) = Len(src[1].relationships)
        /\ \A i \in DOMAIN src[1].nodes :
               /\ doc[1].nodes[i].position = src[1].nodes[i].position
               /\ doc[1].nodes[i].style = src[1].nodes[i].style
               /\ doc[1].nodes[i].caption = src[1].nodes[i].caption
               /\ "position" \in DOMAIN dm.nodes[i].metadata
        /\ \A i \in DOMAIN src[1].relationships :
               doc[1].relationships[i].style = src[1].relationships[i].style
        /\ doc[1].style = src[1].style

\* a document of two nodes and a relationship was imported and exported, and
\* the second node is where the document has it, which is not where the grid
\* would put it
C18_Witness ==
    /\ src # None
    /\ doc # None
    /\ Len(doc[1].nodes) = 2
    /\ Len(doc[1].relationships) = 1
    /\ doc[1].nodes[2].position = [x |-> 50, y |-> 60]
    /\ doc[1].nodes[2].position # DefaultPosition(1)
    /\ doc[1].nodes[1].caption = "a"

(***************************************************************************)
(* Properties of the Arrows transcoder (specification SpecArrows).          *)
(***************************************************************************)
WithoutMetadata(x) == [x EXCEPT !.metadata = EmptyDict]

\* the nodes, relationships and properties of a model, metadata left out
Content(m) ==
    [nodes |-> [i \in 1..Len(m.nodes) |-> WithoutMetadata(m.nodes[i])],
     relationships |-> [i \in 1..Len(m.relationships) |->
                            WithoutMetadata(m.relationships[i])]]

\* C19: in an exported document the node of 0-based index i of the model
\* that has no position in its metadata is at x = 200 * (i mod 5),
\* y = -200 * floor(i / 5): the nodes of indices 0..4 at y = 0, the node of
\* index 5 at (0, -200).
C19_GridPosition ==
    doc # None =>
        \A k \in DOMAIN dm.nodes :
            "position" \notin DOMAIN dm.nodes[k].metadata =>
                doc[1].nodes[k].position =
                    [x |-> 200 * ((k - 1) % 5), y |-> 0 - 200 * ((k - 1) \div 5)]

\* the keys of a properties dict
DictKeys(properties) == [i \in 1..Len(properties) |-> properties[i][1]]

\* the value of the entry of this name in a properties dict
ValueOf(properties, name) ==
    properties[CHOOSE i \in DOMAIN properties : properties[i][1] = name][2]

\* TYPE, then " | " and the description when there is one, then " | KEY"
\* for a key property
EncodedAs(prop, is_key) ==
    prop.type
        \o (IF prop.description # None
            THEN <<" ", "|", " ">> \o prop.description[1] ELSE << >>)
        \o (IF is_key THEN <<" ", "|", " ", "K", "E", "Y">> ELSE << >>)

\* the entity's properties are encoded in the exported entity: the key
\* property, if any, with the KEY segment, the others without
EncodedEntity(e, exported) ==
    /\ Len(exported.properties) = Len(AllProperties(e))
    /\ \A i \in DOMAIN e.properties :
           /\ InSeq(e.properties[i].name, DictKeys(exported.properties))
           /\ ValueOf(exported.properties, e.properties[i].name)
                  = EncodedAs(e.properties[i], FALSE)
    /\ \A i \in DOMAIN AllProperties(e) :
           i <= Len(AllProperties(e)) - Len(e.properties) =>
               /\ InSeq(AllProperties(e)[i].name, DictKeys(exported.properties))
               /\ ValueOf(exported.properties, AllProperties(e)[i].name)
                      = EncodedAs(AllProperties(e)[i], TRUE)

\* C20: in an exported document the key property of each node, and of each
\* relationship that has one, is encoded as TYPE[ | description] | KEY and
\* each other property as TYPE[ | description], the description being there
\* exactly when the property has one; and exactly one property value of each
\* exported node has a segment KEY.
C20_ExportEncoding ==
    doc # None =>
        /\ \A i \in DOMAIN dm.nodes :
               /\ EncodedEntity(dm.nodes[i], doc[1].nodes[i])
               /\ Cardinality(KeySegmentEntries(doc[1].nodes[i].properties)) = 1
        /\ \A i \in DOMAIN dm.relationships :
               EncodedEntity(dm.relationships[i], doc[1].relationships[i])

\* C1: importing the Arrows document exported from a valid DataModel gives
\* a model with the same nodes, relationships and properties; only metadata
\* may differ.
C1_ExportImportRoundTrip ==
    imp # None =>
        /\ imp[1].raised = "none"
        /\ Content(imp[1].value[1]) = Content(dm)

(***************************************************************************)
(* A free-standing Property object: construction, construction from the     *)
(* fields of a constructed one, use in a Node (specification SpecProperty). *)
(***************************************************************************)
\* the characters of the type strings: a letter in both cases, a letter in
\* one case, a character that has no case
TypeChars == {"s", "S", "d", "1"}

\* the type strings of 1 to MaxTypeLen characters
TypeInputs == UNION {[1..k -> TypeChars] : k \in 1..MaxTypeLen}

\* the keyword arguments of a Property(...) call, as they are given
Kwargs(name, type, source, description) ==
    [name |-> name, type |-> type, source |-> source,
     description |-> description]

InitProperty ==
    /\ dm = NoModel
    /\ ent = None
    /\ doc = None
    /\ imp = None
    /\ src = None
    /\ pty = None
    /\ store = EmptyStore
    /\ calls = NoCalls
    /\ gen = None
    /\ db = EmptyGraph
    /\ last = NoCall
    /\ prev = None

\* pty = Property(name=n, type=t, description=d)
NewProperty ==
    /\ pty = None
    /\ \E n \in {"", "p"}, t \in TypeInputs, d \in {None, Some(<<"d">>)} :
          /\ pty' = Some(Property(n, t, None, d))
          /\ last' = Call("Property",
                          [NoArgs EXCEPT !.properties = <<Kwargs(n, t, None, d)>>],
                          "none", << >>)
    /\ prev' = pty
    /\ UNCHANGED <<dm, ent, doc, imp, src, store, calls, gen, db>>

\* pty = Property(name=pty.name, type=pty.type, source=pty.source,
\*                description=pty.description)
RebuildProperty ==
    /\ pty # None
    /\ ent = None
    /\ pty' = Some(Property(pty[1].name, pty[1].type, pty[1].source,
                            pty[1].description))
    /\ last' = Call("Property", [NoArgs EXCEPT !.properties = pty], "none", << >>)
    /\ prev' = pty
    /\ UNCHANGED <<dm, ent, doc, imp, src, store, calls, gen, db>>

\* ent = Node(label="A", key_property=pty) or
\* ent = Node(label="A", key_property=KeyId, properties=[pty])
NewNodeAround ==
    /\ pty # None
    /\ ent = None
    /\ \E asKey \in BOOLEAN :
          LET out == IF asKey THEN NodeInit("A", pty, << >>, EmptyDict)
                     ELSE NodeInit("A", Some(KeyId), pty, EmptyDict)
          IN  /\ ent' = out.value
              /\ last' = Call("Node",
                              [NoArgs EXCEPT !.properties = IF asKey THEN << >> ELSE pty,
                                             !.names = <<"A">>],
                              out.raised, out.errors)
    /\ prev' = pty
    /\ UNCHANGED <<dm, doc, imp, src, pty, store, calls, gen, db>>

NextProperty ==
    \/ NewProperty
    \/ RebuildProperty
    \/ NewNodeAround

SpecProperty == InitProperty /\ [][NextProperty]_vars

(***************************************************************************)
(* Properties of Property objects (specification SpecProperty).             *)
(***************************************************************************)
\* C21: Property(...) with an empty name fails with InvalidValue, and no
\* Property with an empty name is the key property or a property of a Node.
C21_EmptyNameRejected ==
    /\ (last.op = "Property" /\ last.args.properties[1].name = "")
           => /\ RaisedOnly(last, "InvalidValue")
              /\ pty = prev
    /\ pty # None => pty[1].name # ""
    /\ ent # None => \A i \in DOMAIN AllProperties(ent[1]) :
                         AllProperties(ent[1])[i].name # ""

\* C22: a constructed Property has the given type in upper case whatever
\* the case of its letters; a Property built from the fields of a constructed
\* one equals it; and every type string that differs from the given one only
\* in the case of its letters gives an equal Property.
C22_TypeUpperCased ==
    /\ last.op = "Property" =>
           /\ last.raised = "none"
           /\ pty[1].type = StrUpper(last.args.properties[1].type)
           /\ StrUpper(pty[1].type) = pty[1].type
           /\ pty[1].name = last.args.properties[1].name
           /\ pty[1].description = last.args.properties[1].description
           /\ prev # None => pty = prev
           /\ \A t \in TypeInputs :
                  StrLower(t) = StrLower(last.args.properties[1].type)
                      => Property(pty[1].name, t, pty[1].source,
                                  pty[1].description) = pty[1]

\* a Property was built from the fields of a constructed Property of type
\* "SD", and equals it
C22_Witness ==
    /\ last.op = "Property"
    /\ prev # None
    /\ pty = prev
    /\ pty[1].type = <<"S", "D">>
    /\ last.args.properties[1].type = <<"S", "D">>

(***************************************************************************)
(* The mutators of a DataModel and of a free-standing Node or Relationship  *)
(* in one specification (SpecMutation): a run constructs one object and     *)
(* goes on with its mutators.                                               *)
(***************************************************************************)
NextMutation ==
    \/ Construct
    \/ DoAddNode
    \/ DoAddRelationship
    \/ DoRemoveNode
    \/ DoRemoveRelationship
    \/ NewNode
    \/ NewRelationship
    \/ DoAddProperty
    \/ DoRemoveProperty

SpecMutation == Init /\ [][NextMutation]_vars

\* C28: a mutation that raises leaves its object as it was: after a failed
\* add_node or add_relationship the DataModel (nodes, relationships,
\* metadata) equals the DataModel before the call, and after a failed
\* add_property the Node or Relationship equals the one before the call.
C28_FailedMutationChangesNothing ==
    /\ (last.op \in {"add_node", "add_relationship"} /\ last.raised # "none")
           => dm = prev
    /\ (last.op = "add_property" /\ last.raised # "none")
           => ent = prev

\* add_node of a node whose label is taken was turned down on a model that
\* holds two nodes and a relationship
C28_Witness ==
    /\ last.op = "add_node"
    /\ last.raised # "none"
    /\ Len(dm.nodes) = 2
    /\ Len(dm.relationships) >= 1
    /\ InSeq(last.args.nodes[1].label, Labels(dm.nodes))

(***************************************************************************)
(* Further properties of the import (specification SpecImport).             *)
(***************************************************************************)
\* C29: a successful import loses no property: every property name of a
\* node or relationship of the document is the name of the key property or
\* of a property of the imported entity, also when more than one property
\* of the entity carries the KEY marker.
C29_ImportLosesNoProperty ==
    (src # None /\ dm.made) =>
        \A i \in DOMAIN DocEntities(src[1]) :
            \A j \in DOMAIN DocEntities(src[1])[i].properties :
                InSeq(DocEntities(src[1])[i].properties[j][1],
                      Names(AllProperties(ModelEntities(dm)[i])))

(***************************************************************************)
(* mcp_neo4j_memory/neo4j_memory.py: Neo4jMemory.create_entities.           *)
(*                                                                          *)
(* An entity is [name, node_type, point]; its other fields are written to   *)
(* the database as given and take no part in the point logic.  A call goes  *)
(* through its entities in order, and for each awaits three queries in      *)
(* turn: the check query (READ), the CREATE query (WRITE) and, when an       *)
(* older entity was found with a point other than 0, the extension query    *)
(* (WRITE).  Each query is one step: the event loop may run another call    *)
(* between any two of them.                                                 *)
(***************************************************************************)
EntityInputs ==
    {[name |-> "x", node_type |-> "t", point |-> 5],
     [name |-> "x", node_type |-> "t", point |-> 9],
     [name |-> "x", node_type |-> "u", point |-> 0],
     [name |-> "y", node_type |-> "t", point |-> 5]}

Idle == [pc |-> "idle", todo |-> << >>, found |-> FALSE, old_point |-> 0,
         entity_data |-> None]

\* the records of the check query: the points of the nodes of this name and
\* node_type
MatchingPoints(nodes, name, node_type) ==
    {nodes[i].point : i \in {j \in DOMAIN nodes : /\ nodes[j].name = name
                                                   /\ nodes[j].node_type = node_type}}

\* ORDER BY e.point DESC LIMIT 1
Highest(points) == CHOOSE p \in points : \A q \in points : q <= p

\* entity_data['point'] that keeps the supplied point when a node was found
NewPointKeepSupplied(found, old_point, supplied) == supplied

\* entity_data['point'] after the check query
NewPoint(found, old_point, supplied) ==
    IF found THEN old_point + 1 ELSE supplied

\* the pairs the extension query merges: an older node of this name at
\* old_point, a newer one of this name at new_point
ExtensionPairs(nodes, name, old_point, new_point) ==
    {<<i, j>> \in (DOMAIN nodes) \X (DOMAIN nodes) :
        /\ nodes[i].name = name /\ nodes[i].point = old_point
        /\ nodes[j].name = name /\ nodes[j].point = new_point
        /\ i # j}

\* the entities of the calls that are still to be created
Pending == LET RECURSIVE Sum(_)
               Sum(S) == IF S = {} THEN 0
                         ELSE LET c == CHOOSE x \in S : TRUE
                              IN  Len(calls[c].todo) + Sum(S \ {c})
           IN  Sum(DOMAIN calls)

InitMemory ==
    /\ dm = NoModel
    /\ ent = None
    /\ doc = None
    /\ imp = None
    /\ src = None
    /\ pty = None
    /\ store = EmptyStore
    /\ calls = [c \in 1..1 |-> Idle]
    /\ gen = None
    /\ db = EmptyGraph
    /\ last = NoCall
    /\ prev = EmptyStore

InitMemoryConcurrent ==
    /\ dm = NoModel
    /\ ent = None
    /\ doc = None
    /\ imp = None
    /\ src = None
    /\ pty = None
    /\ store = EmptyStore
    /\ calls = [c \in 1..MaxCallers |-> Idle]
    /\ gen = None
    /\ db = EmptyGraph
    /\ last = NoCall
    /\ prev = EmptyStore

\* the step a call moves to when it is through with an entity
NextEntityOf(call) ==
    IF Len(call.todo) > 1
    THEN [Idle EXCEPT !.pc = "check", !.todo = Tail(call.todo)]
    ELSE Idle

\* await create_entities(entities): the call starts on its first entity
StartCall ==
    \E c \in DOMAIN calls :
        /\ calls[c].pc = "idle"
        /\ \E entities \in SeqsUpTo(EntityInputs, MaxBatch) :
              /\ entities # << >>
              /\ Len(store.nodes) + Pending + Len(entities) <= MaxStored
              /\ calls' = [calls EXCEPT ![c] = [Idle EXCEPT !.pc = "check",
                                                            !.todo = entities]]
              /\ last' = Call("create_entities", [NoArgs EXCEPT !.nodes = entities],
                              "none", << >>)
        /\ prev' = store
        /\ UNCHANGED <<dm, ent, doc, imp, src, pty, store, gen, db>>

\* the check query and the branch on its records
CheckStep ==
    \E c \in DOMAIN calls :
        /\ calls[c].pc = "check"
        /\ LET entity == calls[c].todo[1]
               points == MatchingPoints(store.nodes, entity.name, entity.node_type)
               found == points # {}
               old_point == IF found THEN Highest(points) ELSE 0
           IN  /\ calls' = [calls EXCEPT ![c] =
                               [@ EXCEPT !.pc = "create",
                                         !.found = found,
                                         !.old_point = old_point,
                                         !.entity_data =
                                             Some([entity EXCEPT !.point =
                                                 NewPoint(found, old_point,
                                                          entity.point)])]]
               /\ last' = Call("check", [NoArgs EXCEPT !.nodes = <<entity>>],
                               "none", << >>)
        /\ prev' = store
        /\ UNCHANGED <<dm, ent, doc, imp, src, pty, store, gen, db>>

\* the CREATE query
CreateStep ==
    \E c \in DOMAIN calls :
        /\ calls[c].pc = "create"
        /\ store' = [store EXCEPT !.nodes = Append(@, calls[c].entity_data[1])]
        /\ calls' = [calls EXCEPT ![c] =
                        IF calls[c].old_point # 0
                        THEN [@ EXCEPT !.pc = "extend"]
                        ELSE NextEntityOf(calls[c])]
        /\ last' = Call("create", [NoArgs EXCEPT !.nodes = <<calls[c].todo[1]>>],
                        "none", << >>)
        /\ prev' = store
        /\ UNCHANGED <<dm, ent, doc, imp, src, pty, gen, db>>

\* the extension query
ExtendStep ==
    \E c \in DOMAIN calls :
        /\ calls[c].pc = "extend"
        /\ store' = [store EXCEPT !.extensions =
                        @ \cup ExtensionPairs(store.nodes, calls[c].todo[1].name,
                                              calls[c].old_point,
                                              calls[c].entity_data[1].point)]
        /\ calls' = [calls EXCEPT ![c] = NextEntityOf(calls[c])]
        /\ last' = Call("extend", [NoArgs EXCEPT !.nodes = <<calls[c].todo[1]>>],
                        "none", << >>)
        /\ prev' = store
        /\ UNCHANGED <<dm, ent, doc, imp, src, pty, gen, db>>

NextMemory ==
    \/ StartCall
    \/ CheckStep
    \/ CreateStep
    \/ ExtendStep

\* one caller: the calls follow one another
SpecMemory == InitMemory /\ [][NextMemory]_vars

\* MaxCallers callers: the queries of their calls interleave
SpecMemoryConcurrent == InitMemoryConcurrent /\ [][NextMemory]_vars

(***************************************************************************)
(* Properties of create_entities (specifications SpecMemory and             *)
(* SpecMemoryConcurrent).                                                   *)
(***************************************************************************)
\* the indices of the nodes of this name and node_type, created before index i
EarlierSame(nodes, i) ==
    {j \in 1..(i - 1) : /\ nodes[j].name = nodes[i].name
                        /\ nodes[j].node_type = nodes[i].node_type}

\* C27: when calls follow one another, create_entities stores the first
\* entity of a (name, node_type) with the supplied point, and every later
\* one with the highest point stored for that pair plus 1 whatever point was
\* supplied; so the entities of a pair have, in order of creation, the points
\* p, p+1, p+2, ... where p is the point supplied with the first.
C27_SequentialPoints ==
    /\ last.op = "create" =>
           LET e == last.args.nodes[1]
               points == MatchingPoints(prev.nodes, e.name, e.node_type)
           IN  /\ Len(store.nodes) = Len(prev.nodes) + 1
               /\ \A i \in DOMAIN prev.nodes : store.nodes[i] = prev.nodes[i]
               /\ store.nodes[Len(store.nodes)] =
                      [e EXCEPT !.point = IF points = {} THEN e.point
                                          ELSE Highest(points) + 1]
    /\ \A i \in DOMAIN store.nodes :
           \A j \in EarlierSame(store.nodes, i) :
               EarlierSame(store.nodes, j) = {} =>
                   store.nodes[i].point =
                       store.nodes[j].point
                           + Cardinality(EarlierSame(store.nodes, i))

\* three entities of one name and node_type were created one after another,
\* the first supplied with point 5 and the last with point 9, and are stored
\* with the points 5, 6, 7
C27_Witness ==
    /\ last.op = "create"
    /\ last.args.nodes[1].point = 9
    /\ Len(store.nodes) = 3
    /\ \A i \in 1..3 : /\ store.nodes[i].name = "x"
                       /\ store.nodes[i].node_type = "t"
                       /\ store.nodes[i].point = 4 + i

\* C30: when create_entities calls run concurrently, their queries
\* interleaving in any order, no two stored entities of one name and
\* node_type have the same point.
C30_ConcurrentPointsDistinct ==
    \A i, j \in DOMAIN store.nodes :
        (/\ i # j
         /\ store.nodes[i].name = store.nodes[j].name
         /\ store.nodes[i].node_type = store.nodes[j].node_type)
            => store.nodes[i].point # store.nodes[j].point

(***************************************************************************)
(* mcp_neo4j_data_modeling/server.py: the generator tools.  Each tool       *)
(* hands its request to a method of Node or DataModel; these methods        *)
(* (get_mermaid_config_str, get_cypher_constraints_query and the two        *)
(* ..._cypher_ingest_query_for_many_records) are not part of the sources    *)
(* and are modelled from sections 4.6 and 4.7 of the specification.         *)
(* Generated text is modelled by its clauses.                               *)
(***************************************************************************)
\* DataModel.model_validate(data_model, strict=True) of the tools: the
\* argument is a DataModel instance, and pydantic (revalidate_instances
\* defaults to 'never') returns an instance of the class as it is, running
\* no validator on it
ModelValidate(instance) == Built(instance)

\* section 4.7: nodes as boxes carrying label, key and property list,
\* relationships as directed labelled edges
MermaidConfigStr(m) ==
    [boxes |-> [i \in 1..Len(m.nodes) |->
                   [label |-> m.nodes[i].label,
                    key |-> m.nodes[i].key_property.name,
                    properties |-> Names(m.nodes[i].properties)]],
     arrows |-> [i \in 1..Len(m.relationships) |->
                    <<m.relationships[i].start_node_label,
                      m.relationships[i].type,
                      m.relationships[i].end_node_label>>]]

\* the get_mermaid_config_str tool: [raised, errors, value]
GetMermaidConfigStrTool(data_model) ==
    LET dm_validated == ModelValidate(data_model)
    IN  IF dm_validated.raised = "ValidationError"
        THEN Outcome("ValueError", dm_validated.errors, None)
        ELSE Built(MermaidConfigStr(dm_validated.value[1]))

\* the Relationship objects of the models handed to the generators
GeneratorRelationships ==
    {RelationshipInit("R", "A", "B", None, << >>, EmptyDict).value[1],
     RelationshipInit("R", "A", "A", Some(KeyId),
                      <<Property("p", STRING_T, None, None)>>, EmptyDict).value[1],
     RelationshipInit("S", "B", "A", Some(KeyCode), << >>, EmptyDict).value[1]}

\* the Node objects of the models handed to the generators
GeneratorNodes ==
    NodeInputs \cup
        {NodeInit("B", Some(KeyCode), <<Property("p", STRING_T, None, None)>>,
                  EmptyDict).value[1]}

\* dm = DataModel(nodes=ns, relationships=rs), the first call of a run
ConstructForGenerate ==
    /\ ~dm.made
    /\ last.op = "none"
    /\ \E rs \in SeqsUpTo(GeneratorRelationships, MaxRels),
          ns \in SeqsUpTo(GeneratorNodes, MaxNodes) :
          LET out == DataModelInit(ns, rs, EmptyDict)
          IN  /\ dm' = IF out.raised = "none" THEN Made(out.value[1]) ELSE dm
              /\ last' = Call("DataModel",
                              [NoArgs EXCEPT !.nodes = ns, !.relationships = rs],
                              out.raised, out.errors)
    /\ prev' = dm
    /\ UNCHANGED <<ent, doc, imp, src, pty, store, calls, gen, db>>

\* get_mermaid_config_str(dm)
GetMermaidConfigStr ==
    /\ dm.made
    /\ LET out == GetMermaidConfigStrTool(dm)
       IN  /\ gen' = out.value
           /\ last' = Call("get_mermaid_config_str", NoArgs, out.raised, out.errors)
    /\ prev' = dm
    /\ UNCHANGED <<dm, ent, doc, imp, src, pty, store, calls, db>>

\* section 4.6, constraint generation without the statements of the
\* relationships
CypherConstraintsQueryNodesOnly(m) ==
    Built([i \in 1..Len(m.nodes) |->
              [kind |-> "node", target |-> m.nodes[i].label, pattern |-> "",
               property |-> m.nodes[i].key_property.name]])

\* section 4.6, constraint generation: one statement for the key property of
\* every node, then one for that of every relationship that has one
CypherConstraintsQuery(m) ==
    LET keyed == SelectIdx(m.relationships,
                           {i \in DOMAIN m.relationships :
                               m.relationships[i].key_property # None})
    IN  Built([i \in 1..Len(m.nodes) |->
                  [kind |-> "node", target |-> m.nodes[i].label, pattern |-> "",
                   property |-> m.nodes[i].key_property.name]]
              \o [i \in 1..Len(keyed) |->
                     [kind |-> "relationship", target |-> keyed[i].type,
                      pattern |-> Pattern(keyed[i]),
                      property |-> keyed[i].key_property[1].name]])

\* section 4.6, node bulk-ingest query that creates instead of merging
NodeCypherIngestQueryCreate(node) ==
    Built([subject |-> "node", parameter |-> "records", clause |-> "CREATE",
           label |-> node.label, key |-> node.key_property.name,
           set |-> Names(node.properties)])

\* section 4.6, node bulk-ingest query: over the records, MERGE on the key
\* property and SET the remaining properties
NodeCypherIngestQuery(node) ==
    Built([subject |-> "node", parameter |-> "records", clause |-> "MERGE",
           label |-> node.label, key |-> node.key_property.name,
           set |-> Names(node.properties)])

\* the node of this label in a list of nodes that has one
NodeOfLabel(nodes, label) ==
    nodes[CHOOSE i \in DOMAIN nodes : nodes[i].label = label]

\* the relationship of this pattern in a list of relationships that has one
RelationshipOfPattern(relationships, pattern) ==
    relationships[CHOOSE i \in DOMAIN relationships :
                      Pattern(relationships[i]) = pattern]

\* section 4.6, relationship bulk-ingest query that does not look for the
\* endpoint nodes in the model
RelationshipCypherIngestQueryUnchecked(m, relationship_type, relationship_start_node_label, relationship_end_node_label) ==
    LET pattern == GenerateRelationshipPattern(relationship_start_node_label,
                                               relationship_type,
                                               relationship_end_node_label)
    IN  IF ~InSeq(pattern, Patterns(m.relationships))
        THEN Outcome("ValueError",
                     <<Err("UnknownPattern", "not_found", pattern, "", 0)>>, None)
        ELSE LET rel == RelationshipOfPattern(m.relationships, pattern)
             IN  Built([subject |-> "relationship", parameter |-> "records",
                        clause |-> "MERGE",
                        start |-> [label |-> rel.start_node_label, key |-> "id"],
                        end |-> [label |-> rel.end_node_label, key |-> "id"],
                        type |-> rel.type,
                        key |-> Names(rel.key_property),
                        set |-> Names(rel.properties)])

\* section 4.6, relationship bulk-ingest query: over the records, MATCH the
\* start node by its key property = sourceId and the end node by its key
\* property = targetId, MERGE the relationship between them and SET its
\* properties; UnknownPattern / UnknownLabel when the relationship / one of
\* its nodes is not in the model
RelationshipCypherIngestQuery(m, relationship_type, relationship_start_node_label, relationship_end_node_label) ==
    LET pattern == GenerateRelationshipPattern(relationship_start_node_label,
                                               relationship_type,
                                               relationship_end_node_label)
    IN  IF ~InSeq(pattern, Patterns(m.relationships))
        THEN Outcome("ValueError",
                     <<Err("UnknownPattern", "not_found", pattern, "", 0)>>, None)
        ELSE LET rel == RelationshipOfPattern(m.relationships, pattern)
             IN  IF ~InSeq(rel.start_node_label, Labels(m.nodes))
                 THEN Outcome("ValueError",
                              <<Err("UnknownLabel", "not_found",
                                    rel.start_node_label, pattern, 0)>>, None)
                 ELSE IF ~InSeq(rel.end_node_label, Labels(m.nodes))
                 THEN Outcome("ValueError",
                              <<Err("UnknownLabel", "not_found",
                                    rel.end_node_label, pattern, 0)>>, None)
                 ELSE Built([subject |-> "relationship", parameter |-> "records",
                             clause |-> "MERGE",
                             start |-> [label |-> rel.start_node_label,
                                        key |-> NodeOfLabel(m.nodes,
                                            rel.start_node_label).key_property.name],
                             end |-> [label |-> rel.end_node_label,
                                      key |-> NodeOfLabel(m.nodes,
                                          rel.end_node_label).key_property.name],
                             type |-> rel.type,
                             key |-> Names(rel.key_property),
                             set |-> Names(rel.properties)])

\* the get_node_cypher_ingest_query_for_many_records tool; its node argument
\* is built as a Node from the fields of the request
GetNodeCypherIngestQueryTool(label, key_property, properties) ==
    LET node == NodeInit(label, key_property, properties, EmptyDict)
    IN  IF node.raised # "none" THEN node
        ELSE NodeCypherIngestQuery(node.value[1])

\* get_constraints_cypher_queries(dm)
GetConstraintsCypherQueries ==
    /\ dm.made
    /\ LET out == CypherConstraintsQuery(dm)
       IN  /\ gen' = out.value
           /\ last' = Call("get_constraints_cypher_queries", NoArgs,
                           out.raised, out.errors)
    /\ prev' = dm
    /\ UNCHANGED <<dm, ent, doc, imp, src, pty, store, calls, db>>

\* get_node_cypher_ingest_query_for_many_records(node)
GetNodeCypherIngestQuery ==
    /\ \E l \in {"A", "B"}, k \in {None, Some(KeyId), Some(KeyCode)},
          ps \in {<< >>, <<Property("p", STRING_T, None, None)>>} :
          LET out == GetNodeCypherIngestQueryTool(l, k, ps)
          IN  /\ gen' = out.value
              /\ last' = Call("get_node_cypher_ingest_query_for_many_records",
                              [label |-> l, key_property |-> k, properties |-> ps],
                              out.raised, out.errors)
    /\ prev' = dm
    /\ UNCHANGED <<dm, ent, doc, imp, src, pty, store, calls, db>>

\* the relationships asked for: those of the models and one of none
RequestedRelationships ==
    GeneratorRelationships
        \cup {RelationshipInit("S", "A", "B", None, << >>, EmptyDict).value[1]}

\* get_relationship_cypher_ingest_query_for_many_records(dm, t, s, e)
GetRelationshipCypherIngestQuery ==
    /\ dm.made
    /\ \E r \in RequestedRelationships :
          LET out == RelationshipCypherIngestQuery(dm, r.type, r.start_node_label,
                                                   r.end_node_label)
          IN  /\ gen' = out.value
              /\ last' = Call("get_relationship_cypher_ingest_query_for_many_records",
                              [type |-> r.type, start |-> r.start_node_label,
                               end |-> r.end_node_label],
                              out.raised, out.errors)
    /\ prev' = dm
    /\ UNCHANGED <<dm, ent, doc, imp, src, pty, store, calls, db>>

NextGenerator ==
    \/ ConstructForGenerate
    \/ DoRemoveNode
    \/ GetMermaidConfigStr
    \/ GetConstraintsCypherQueries
    \/ GetNodeCypherIngestQuery
    \/ GetRelationshipCypherIngestQuery

SpecGenerator == Init /\ [][NextGenerator]_vars

(***************************************************************************)
(* Properties of the generator tools (specification SpecGenerator).         *)
(***************************************************************************)
\* the statements of this kind for this label or pattern
StatementsFor(statements, kind, target, pattern) ==
    {i \in DOMAIN statements : /\ statements[i].kind = kind
                               /\ statements[i].target = target
                               /\ statements[i].pattern = pattern}

\* C23: constraint generation for a DataModel gives exactly one statement
\* for the key property of every node and of every relationship that has a
\* key property, no statement for a relationship without one, and no other
\* statement.
C23_OneConstraintPerKey ==
    last.op = "get_constraints_cypher_queries" =>
        /\ last.raised = "none"
        /\ gen # None
        /\ \A i \in DOMAIN dm.nodes :
               \E k \in DOMAIN gen[1] :
                   /\ StatementsFor(gen[1], "node", dm.nodes[i].label, "") = {k}
                   /\ gen[1][k].property = dm.nodes[i].key_property.name
        /\ \A i \in DOMAIN dm.relationships :
               LET r == dm.relationships[i]
                   found == StatementsFor(gen[1], "relationship", r.type, Pattern(r))
               IN  IF r.key_property = None THEN found = {}
                   ELSE \E k \in DOMAIN gen[1] :
                            /\ found = {k}
                            /\ gen[1][k].property = r.key_property[1].name
        /\ \A k \in DOMAIN gen[1] :
               \/ /\ gen[1][k].kind = "node"
                  /\ InSeq(gen[1][k].target, Labels(dm.nodes))
               \/ /\ gen[1][k].kind = "relationship"
                  /\ InSeq(gen[1][k].pattern, Patterns(dm.relationships))

\* constraints were generated for a model of two nodes, a relationship with
\* a key property and a relationship without
C23_Witness ==
    /\ last.op = "get_constraints_cypher_queries"
    /\ Len(dm.nodes) = 2
    /\ Len(dm.relationships) = 2
    /\ \E i, j \in DOMAIN dm.relationships :
           /\ dm.relationships[i].key_property = None
           /\ dm.relationships[j].key_property # None
    /\ Len(gen[1]) = 3

Record(a, b) ==
    [id |-> a, code |-> a, p |-> 7, sourceId |-> a, targetId |-> b]

RecordInputs == {Record(1, 2), Record(2, 2)}

Range(seq) == {seq[i] : i \in DOMAIN seq}

\* SET of the properties named, from the record
SetProps(props, names, rec) ==
    [n \in (DOMAIN props) \cup Range(names) |->
        IF n \in Range(names) THEN rec[n] ELSE props[n]]

\* the nodes of this label whose key property has this value
NodesMatching(nodes, label, key, value) ==
    {i \in DOMAIN nodes : /\ nodes[i].label = label
                          /\ key \in DOMAIN nodes[i].props
                          /\ nodes[i].props[key] = value}

\* a node query for one record: MERGE matches the nodes of the label and key
\* value or creates one when there is none, CREATE creates one; then SET
RunNodeQuery(g, q, rec) ==
    LET matches == NodesMatching(g.nodes, q.label, q.key, rec[q.key])
        created == q.clause = "CREATE" \/ matches = {}
        nodes1 == IF created
                  THEN Append(g.nodes, [label |-> q.label,
                                        props |-> (q.key :> rec[q.key])])
                  ELSE g.nodes
        targets == IF created THEN {Len(nodes1)} ELSE matches
    IN  [g EXCEPT !.nodes =
            [i \in 1..Len(nodes1) |->
                IF i \in targets
                THEN [nodes1[i] EXCEPT !.props = SetProps(@, q.set, rec)]
                ELSE nodes1[i]]]

\* the edges of this type between two nodes, with this key value if the
\* relationship has a key property
EdgesMatching(edges, q, rec, s, e) ==
    {k \in DOMAIN edges :
        /\ edges[k].type = q.type
        /\ edges[k].from = s
        /\ edges[k].to = e
        /\ \A i \in DOMAIN q.key : edges[k].props[q.key[i]] = rec[q.key[i]]}

\* MERGE of the relationship between one pair of matched nodes, then SET
MergeEdge(edges, q, rec, s, e) ==
    LET matches == EdgesMatching(edges, q, rec, s, e)
        edges1 == IF matches = {}
                  THEN Append(edges, [type |-> q.type, from |-> s, to |-> e,
                                      props |-> SetProps(<< >>, q.key, rec)])
                  ELSE edges
        targets == IF matches = {} THEN {Len(edges1)} ELSE matches
    IN  [k \in 1..Len(edges1) |->
            IF k \in targets
            THEN [edges1[k] EXCEPT !.props = SetProps(@, q.set, rec)]
            ELSE edges1[k]]

\* a relationship query for one record: MATCH the start nodes by key =
\* sourceId and the end nodes by key = targetId, MERGE the relationship
\* between every pair of them
RECURSIVE MergeEdges(_, _, _, _)
MergeEdges(edges, q, rec, pairs) ==
    IF pairs = {} THEN edges
    ELSE LET pr == CHOOSE x \in pairs :
                       \A y \in pairs : \/ x[1] < y[1]
                                        \/ (x[1] = y[1] /\ x[2] <= y[2])
         IN  MergeEdges(MergeEdge(edges, q, rec, pr[1], pr[2]), q, rec,
                        pairs \ {pr})

RunRelationshipQuery(g, q, rec) ==
    LET starts == NodesMatching(g.nodes, q.start.label, q.start.key, rec.sourceId)
        ends == NodesMatching(g.nodes, q.end.label, q.end.key, rec.targetId)
    IN  [g EXCEPT !.edges = MergeEdges(g.edges, q, rec, starts \X ends)]

\* UNWIND $records: the query is run for each record in turn
RECURSIVE RunQuery(_, _, _)
RunQuery(g, q, records) ==
    IF records = << >> THEN g
    ELSE RunQuery(IF q.subject = "node" THEN RunNodeQuery(g, q, records[1])
                  ELSE RunRelationshipQuery(g, q, records[1]),
                  q, Tail(records))

\* the models whose queries are run: nodes A (key id) and B (key code,
\* property p) with R from A to B, without a key, and S from B to A, with
\* the key code and the property p
IngestNodes ==
    <<NodeInit("A", Some(KeyId), << >>, EmptyDict).value[1],
      NodeInit("B", Some(KeyCode), <<Property("p", STRING_T, None, None)>>,
               EmptyDict).value[1]>>

IngestRelationships ==
    <<RelationshipInit("R", "A", "B", None, << >>, EmptyDict).value[1],
      RelationshipInit("S", "B", "A", Some(KeyCode),
                       <<Property("p", STRING_T, None, None)>>,
                       EmptyDict).value[1]>>

NoRun == [db |-> EmptyGraph, last |-> NoCall]

InitIngest ==
    /\ dm = NoModel
    /\ ent = None
    /\ doc = None
    /\ imp = None
    /\ src = None
    /\ pty = None
    /\ store = EmptyStore
    /\ calls = NoCalls
    /\ gen = None
    /\ db = EmptyGraph
    /\ last = NoCall
    /\ prev = NoRun

\* dm = DataModel(nodes=IngestNodes, relationships=rs), the first call
ConstructForIngest ==
    /\ ~dm.made
    /\ last.op = "none"
    /\ \E rs \in {IngestRelationships, SelectIdx(IngestRelationships, {1})} :
          LET out == DataModelInit(IngestNodes, rs, EmptyDict)
          IN  /\ dm' = IF out.raised = "none" THEN Made(out.value[1]) ELSE dm
              /\ last' = Call("DataModel",
                              [NoArgs EXCEPT !.nodes = IngestNodes,
                                             !.relationships = rs],
                              out.raised, out.errors)
    /\ prev' = [db |-> db, last |-> last]
    /\ UNCHANGED <<ent, doc, imp, src, pty, store, calls, gen, db>>

\* get_node_cypher_ingest_query_for_many_records(n) for a node of the model
GetNodeQuery ==
    /\ dm.made
    /\ \E i \in DOMAIN dm.nodes :
          LET n == dm.nodes[i]
              out == GetNodeCypherIngestQueryTool(n.label, Some(n.key_property),
                                                  n.properties)
          IN  /\ gen' = out.value
              /\ last' = Call("get_node_cypher_ingest_query_for_many_records",
                              [label |-> n.label,
                               key_property |-> Some(n.key_property),
                               properties |-> n.properties],
                              out.raised, out.errors)
    /\ prev' = [db |-> db, last |-> last]
    /\ UNCHANGED <<dm, ent, doc, imp, src, pty, store, calls, db>>

\* get_relationship_cypher_ingest_query_for_many_records(dm, t, s, e) for a
\* relationship of the model
GetRelationshipQuery ==
    /\ dm.made
    /\ \E i \in DOMAIN dm.relationships :
          LET r == dm.relationships[i]
              out == RelationshipCypherIngestQuery(dm, r.type, r.start_node_label,
                                                   r.end_node_label)
          IN  /\ gen' = out.value
              /\ last' = Call("get_relationship_cypher_ingest_query_for_many_records",
                              [type |-> r.type, start |-> r.start_node_label,
                               end |-> r.end_node_label],
                              out.raised, out.errors)
    /\ prev' = [db |-> db, last |-> last]
    /\ UNCHANGED <<dm, ent, doc, imp, src, pty, store, calls, db>>

\* the executor runs the query last generated with a list of records
ExecuteQuery ==
    /\ gen # None
    /\ \E records \in SeqsUpTo(RecordInputs, MaxRecords) :
          /\ records # << >>
          /\ db.runs < MaxRuns
          /\ db' = [RunQuery(db, gen[1], records) EXCEPT !.runs = @ + 1]
          /\ last' = Call("execute", [query |-> gen[1], records |-> records],
                          "none", << >>)
    /\ prev' = [db |-> db, last |-> last]
    /\ UNCHANGED <<dm, ent, doc, imp, src, pty, store, calls, gen>>

NextIngest ==
    \/ ConstructForIngest
    \/ GetNodeQuery
    \/ GetRelationshipQuery
    \/ ExecuteQuery

SpecIngest == InitIngest /\ [][NextIngest]_vars

\* C24: the generated ingest queries are idempotent: a node query run a
\* second time with the same records changes nothing and leaves one node of
\* the label for each key value of the records; a relationship query run a
\* second time with the same records changes nothing and leaves, for each
\* record, one edge of the type between each start node matched by sourceId
\* and each end node matched by targetId.
C24_IngestIdempotent ==
    (/\ last.op = "execute"
     /\ prev.last.op = "execute"
     /\ prev.last.args = last.args)
        => LET q == last.args.query
               records == last.args.records
           IN  /\ db.nodes = prev.db.nodes
               /\ db.edges = prev.db.edges
               /\ q.subject = "node" =>
                      \A i \in DOMAIN records :
                          Cardinality(NodesMatching(db.nodes, q.label, q.key,
                                                    records[i][q.key])) = 1
               /\ q.subject = "relationship" =>
                      \A i \in DOMAIN records :
                          \A s \in NodesMatching(db.nodes, q.start.label,
                                                 q.start.key, records[i].sourceId),
                             e \in NodesMatching(db.nodes, q.end.label,
                                                 q.end.key, records[i].targetId) :
                              Cardinality({k \in DOMAIN db.edges :
                                              /\ db.edges[k].type = q.type
                                              /\ db.edges[k].from = s
                                              /\ db.edges[k].to = e}) = 1

\* the relationship query of R was run twice with the record
\* {sourceId: 1, targetId: 2} on a database that has the node A of id 1 and
\* the node B of code 2, and there is one R edge between them
C24_Witness ==
    /\ last.op = "execute"
    /\ prev.last.op = "execute"
    /\ prev.last.args = last.args
    /\ last.args.query.subject = "relationship"
    /\ last.args.query.type = "R"
    /\ last.args.records = <<Record(1, 2)>>
    /\ \E s \in NodesMatching(db.nodes, "A", "id", 1),
          e \in NodesMatching(db.nodes, "B", "code", 2) :
          Cardinality({k \in DOMAIN db.edges : /\ db.edges[k].type = "R"
                                               /\ db.edges[k].from = s
                                               /\ db.edges[k].to = e}) = 1

====
